---- MODULE Spec2Model ----
(***************************************************************************)
(* StudioCommand engine (engine/src/main.rs): the playout queue, the       *)
(* now-playing projection, the operator queue/transport handlers, the      *)
(* output supervisor and the playout writer, as one state machine.         *)
(*                                                                         *)
(* Conventions.                                                            *)
(*  - Rust Vec indices are 0-based, TLA+ sequences 1-based: index i of the *)
(*    source is position i + 1 here.                                       *)
(*  - A Uuid is a natural number; Uuid::nil() is 0; Uuid::new_v4() yields  *)
(*    the next number never handed out before (next_id).                   *)
(*  - A duration string is the tuple of its characters, so that parsing    *)
(*    is computed, not assumed.                                            *)
(*  - A meter value is abstracted to 0 (exactly zero) or 1 (positive):     *)
(*    smooth_level yields zero exactly when current and target are zero.   *)
(*  - now.pos_f counts 20 ms chunks; now.pos = floor(seconds).             *)
(***************************************************************************)
EXTENDS Integers, Sequences, FiniteSets, TLC

(* ----------------------------- bounds ---------------------------------- *)

\* Longest queue that operator inserts and top-up appends build (a reload
\* always builds its five items).
MaxLen == 2

\* Ids that Uuid::new_v4() hands out in one run.
MaxIds == 8

\* Output start calls explored (each spawns one encoder child and one writer).
MaxStarts == 2

\* Chunks one decoder delivers before end of file, at most.
MaxChunks == 2

\* Longest queue an insert is tried on when inserts are checked by themselves.
MaxInsertLen == 3

\* Lines the stderr tail ring holds (80 in the source).
MaxTail == 2

\* Offers POSTed to /api/v1/webrtc/offer in one run.
MaxOffers == 2

\* Silence frames written after the first real audio that are counted (the
\* count stays there).
MaxFrames == 2

\* The capacity of the PCM broadcast channel (64 in main), scaled down.
BusCapacity == 2

\* The chunks the writer publishes in one run.
MaxPublished == 4

(* ------------------------ program constants ---------------------------- *)

\* reset_demo_playout builds five items.
DemoLen == 5

\* SR / FRAMES = 48000 / 960 chunks per second of audio.
ChunksPerSec == 50

NilUuid == 0

\* An id that is never handed out (an operator's stale or foreign id).
UnknownId == MaxIds + 1

(* --------------------------- sequences --------------------------------- *)

RemoveAt(s, i) == [j \in 1..(Len(s) - 1) |-> IF j < i THEN s[j] ELSE s[j + 1]]

\* A variant that puts the element at the end whatever the index.
InsertAt_at_end(s, i, x) == Append(s, x)

InsertAt(s, i, x) ==
    [j \in 1..(Len(s) + 1) |-> IF j < i THEN s[j] ELSE IF j = i THEN x ELSE s[j - 1]]

Range(s) == {s[i] : i \in 1..Len(s)}

IdsOf(s) == {s[i].id : i \in 1..Len(s)}

Min(a, b) == IF a < b THEN a ELSE b

(* --------------------------- durations --------------------------------- *)

Digits == <<"0", "1", "2", "3", "4", "5", "6", "7", "8", "9">>

IsDigit(c) == \E d \in 1..10 : Digits[d] = c

DigitVal(c) == (CHOOSE d \in 1..10 : Digits[d] = c) - 1

\* str::parse::<u32>() on a character tuple: -1 stands for Err. The durations
\* explored have at most three digits a field, far below the u32 range, so
\* neither the parse nor m * 60 + s can overflow.
RECURSIVE ParseU32Acc(_, _)
ParseU32Acc(cs, acc) ==
    IF cs = <<>> THEN acc
    ELSE IF ~IsDigit(Head(cs)) THEN -1
    ELSE ParseU32Acc(Tail(cs), acc * 10 + DigitVal(Head(cs)))

ParseU32(cs) == IF cs = <<>> THEN -1 ELSE ParseU32Acc(cs, 0)

\* str::split_once(":"): position of the first colon, 0 when there is none.
ColonAt(d) ==
    IF \E i \in 1..Len(d) : d[i] = ":"
    THEN CHOOSE i \in 1..Len(d) : d[i] = ":" /\ \A j \in 1..(i - 1) : d[j] # ":"
    ELSE 0

parse_dur_to_sec(d) ==
    LET c == ColonAt(d) IN
    IF c = 0 THEN 0
    ELSE LET m == ParseU32(SubSeq(d, 1, c - 1))
             s == ParseU32(SubSeq(d, c + 1, Len(d)))
         IN IF m >= 0 /\ s >= 0 THEN m * 60 + s ELSE 0

\* str::trim() on a character tuple.
RECURSIVE TrimStart(_)
TrimStart(cs) == IF cs # <<>> /\ Head(cs) = " " THEN TrimStart(Tail(cs)) ELSE cs

RECURSIVE TrimEnd(_)
TrimEnd(cs) ==
    IF cs # <<>> /\ cs[Len(cs)] = " " THEN TrimEnd(SubSeq(cs, 1, Len(cs) - 1)) ELSE cs

Trim(cs) == TrimEnd(TrimStart(cs))

\* parse_dur_seconds(..).unwrap_or(0), as the writer uses it.
parse_dur_seconds(d) == parse_dur_to_sec(Trim(d))

(* ----------------------------- strings --------------------------------- *)

\* The strings that can be a password, a line of the encoder's stderr or a
\* status message, and the pieces they are searched for or built from.
Strings ==
    { "url source:hunter2@host",
      "hunter2hunter2",
      "401 Unauthorized hunter2",
      "url source:abc@host",
      "abcabc",
      "401 Unauthorized abc",
      "AUTHORIZATION: Basic c291",
      "Broken pipe",
      " ",
      "url source:****@host",
      "********",
      "401 Unauthorized ****",
      "Authorization: ****",
      "Icecast password is empty",
      "spawn failed",
      "ffmpeg exited",
      "audio writer",
      "Authorization:",
      "authorization:",
      "unauthorized",
      "forbidden",
      "not found",
      "server returned",
      "broken pipe",
      "conversion failed",
      "****",
      "url source:",
      "@host",
      "401 Unauthorized ",
      "hunter2",
      "abc",
      "url source:auth@host",
      "401 Unauthorized auth",
      "401 Un****orized ****",
      "auth",
      "" }

\* The characters of a string.
Chars(s) ==
    CASE s = "url source:hunter2@host" -> <<"u", "r", "l", " ", "s", "o", "u", "r", "c", "e", ":", "h", "u", "n", "t", "e", "r", "2", "@", "h", "o", "s", "t">>
      [] s = "hunter2hunter2" -> <<"h", "u", "n", "t", "e", "r", "2", "h", "u", "n", "t", "e", "r", "2">>
      [] s = "401 Unauthorized hunter2" -> <<"4", "0", "1", " ", "U", "n", "a", "u", "t", "h", "o", "r", "i", "z", "e", "d", " ", "h", "u", "n", "t", "e", "r", "2">>
      [] s = "url source:abc@host" -> <<"u", "r", "l", " ", "s", "o", "u", "r", "c", "e", ":", "a", "b", "c", "@", "h", "o", "s", "t">>
      [] s = "abcabc" -> <<"a", "b", "c", "a", "b", "c">>
      [] s = "401 Unauthorized abc" -> <<"4", "0", "1", " ", "U", "n", "a", "u", "t", "h", "o", "r", "i", "z", "e", "d", " ", "a", "b", "c">>
      [] s = "AUTHORIZATION: Basic c291" -> <<"A", "U", "T", "H", "O", "R", "I", "Z", "A", "T", "I", "O", "N", ":", " ", "B", "a", "s", "i", "c", " ", "c", "2", "9", "1">>
      [] s = "Broken pipe" -> <<"B", "r", "o", "k", "e", "n", " ", "p", "i", "p", "e">>
      [] s = " " -> <<" ">>
      [] s = "url source:****@host" -> <<"u", "r", "l", " ", "s", "o", "u", "r", "c", "e", ":", "*", "*", "*", "*", "@", "h", "o", "s", "t">>
      [] s = "********" -> <<"*", "*", "*", "*", "*", "*", "*", "*">>
      [] s = "401 Unauthorized ****" -> <<"4", "0", "1", " ", "U", "n", "a", "u", "t", "h", "o", "r", "i", "z", "e", "d", " ", "*", "*", "*", "*">>
      [] s = "Authorization: ****" -> <<"A", "u", "t", "h", "o", "r", "i", "z", "a", "t", "i", "o", "n", ":", " ", "*", "*", "*", "*">>
      [] s = "Icecast password is empty" -> <<"I", "c", "e", "c", "a", "s", "t", " ", "p", "a", "s", "s", "w", "o", "r", "d", " ", "i", "s", " ", "e", "m", "p", "t", "y">>
      [] s = "spawn failed" -> <<"s", "p", "a", "w", "n", " ", "f", "a", "i", "l", "e", "d">>
      [] s = "ffmpeg exited" -> <<"f", "f", "m", "p", "e", "g", " ", "e", "x", "i", "t", "e", "d">>
      [] s = "audio writer" -> <<"a", "u", "d", "i", "o", " ", "w", "r", "i", "t", "e", "r">>
      [] s = "Authorization:" -> <<"A", "u", "t", "h", "o", "r", "i", "z", "a", "t", "i", "o", "n", ":">>
      [] s = "authorization:" -> <<"a", "u", "t", "h", "o", "r", "i", "z", "a", "t", "i", "o", "n", ":">>
      [] s = "unauthorized" -> <<"u", "n", "a", "u", "t", "h", "o", "r", "i", "z", "e", "d">>
      [] s = "forbidden" -> <<"f", "o", "r", "b", "i", "d", "d", "e", "n">>
      [] s = "not found" -> <<"n", "o", "t", " ", "f", "o", "u", "n", "d">>
      [] s = "server returned" -> <<"s", "e", "r", "v", "e", "r", " ", "r", "e", "t", "u", "r", "n", "e", "d">>
      [] s = "broken pipe" -> <<"b", "r", "o", "k", "e", "n", " ", "p", "i", "p", "e">>
      [] s = "conversion failed" -> <<"c", "o", "n", "v", "e", "r", "s", "i", "o", "n", " ", "f", "a", "i", "l", "e", "d">>
      [] s = "****" -> <<"*", "*", "*", "*">>
      [] s = "url source:" -> <<"u", "r", "l", " ", "s", "o", "u", "r", "c", "e", ":">>
      [] s = "@host" -> <<"@", "h", "o", "s", "t">>
      [] s = "401 Unauthorized " -> <<"4", "0", "1", " ", "U", "n", "a", "u", "t", "h", "o", "r", "i", "z", "e", "d", " ">>
      [] s = "hunter2" -> <<"h", "u", "n", "t", "e", "r", "2">>
      [] s = "abc" -> <<"a", "b", "c">>
      [] s = "url source:auth@host" -> <<"u", "r", "l", " ", "s", "o", "u", "r", "c", "e", ":", "a", "u", "t", "h", "@", "h", "o", "s", "t">>
      [] s = "401 Unauthorized auth" -> <<"4", "0", "1", " ", "U", "n", "a", "u", "t", "h", "o", "r", "i", "z", "e", "d", " ", "a", "u", "t", "h">>
      [] s = "401 Un****orized ****" -> <<"4", "0", "1", " ", "U", "n", "*", "*", "*", "*", "o", "r", "i", "z", "e", "d", " ", "*", "*", "*", "*">>
      [] s = "auth" -> <<"a", "u", "t", "h">>
      [] s = "" -> <<>>

\* The string with the given characters.
Str(cs) == CHOOSE s \in Strings : Chars(s) = cs

Upper == <<"A", "B", "C", "D", "E", "F", "G", "H", "I", "J", "K", "L", "M",
           "N", "O", "P", "Q", "R", "S", "T", "U", "V", "W", "X", "Y", "Z">>

Lower == <<"a", "b", "c", "d", "e", "f", "g", "h", "i", "j", "k", "l", "m",
           "n", "o", "p", "q", "r", "s", "t", "u", "v", "w", "x", "y", "z">>

\* str::to_ascii_lowercase
to_ascii_lowercase(cs) ==
    [i \in 1..Len(cs) |->
        IF \E k \in 1..Len(Upper) : Upper[k] = cs[i]
        THEN Lower[CHOOSE k \in 1..Len(Upper) : Upper[k] = cs[i]]
        ELSE cs[i]]

\* str::contains
Contains(cs, pat) ==
    \E i \in 1..(Len(cs) - Len(pat) + 1) : SubSeq(cs, i, i + Len(pat) - 1) = pat

\* str::replace for a non-empty pattern: the matches from left to right,
\* none overlapping another.
RECURSIVE Replace(_, _, _)
Replace(cs, pat, to) ==
    IF Len(cs) < Len(pat) THEN cs
    ELSE IF SubSeq(cs, 1, Len(pat)) = pat
    THEN to \o Replace(SubSeq(cs, Len(pat) + 1, Len(cs)), pat, to)
    ELSE <<Head(cs)>> \o Replace(Tail(cs), pat, to)

(* ----------------------------- items ----------------------------------- *)

LogItem(id, tag, time, title, artist, state, dur, cart) ==
    [id |-> id, tag |-> tag, time |-> time, title |-> title, artist |-> artist,
     state |-> state, dur |-> dur, cart |-> cart]

NowPlaying(title, artist, dur, pos, pos_f) ==
    [title |-> title, artist |-> artist, dur |-> dur, pos |-> pos, pos_f |-> pos_f]

VuDefault == [rms_l |-> 0, rms_r |-> 0, peak_l |-> 0, peak_r |-> 0]

(* -------------------------- file system -------------------------------- *)

\* default_topup_config().dir, the installer-managed directory.
DefaultDir == "/opt/studiocommand/shared/data"

\* An operator-configured library directory (for example a NAS mount).
ConfiguredDir == "/mnt/nas/music"

File1 == "/opt/studiocommand/shared/data/one_song.mp3"

File2 == "/opt/studiocommand/shared/data/two.flac"

File3 == "/mnt/nas/music/nas_track.ogg"

Files == {File1, File2, File3}

DirOf(f) == IF f = File3 THEN ConfiguredDir ELSE DefaultDir

\* Cart codes that resolve under /opt/studiocommand/shared/carts/<cart>.<ext>.
CartsPresent == {"080-0599"}

\* str::starts_with('/') over the carts of the model.
StartsWithSlash(cart) == cart \in Files \cup {DefaultDir, ConfiguredDir, "/gone/file.mp3"}

\* A variant without the trim.
TrimIsEmpty_not_trimmed(cart) == cart = ""

\* str::trim().is_empty() over the carts and passwords of the model.
TrimIsEmpty(cart) == cart \in {"", " "}

\* Path::new(p).exists() in the file system f = [dirs, files].
PathExists(f, p) == p \in f.dirs \/ p \in f.files

FilesUnder(f, dir) == {x \in f.files : DirOf(x) = dir}

VARIABLES
    log,               \* PlayoutState.log
    now,               \* PlayoutState.now
    vu,                \* PlayoutState.vu
    track_started_at,  \* PlayoutState.track_started_at is Some
    next_id,           \* the id the next Uuid::new_v4() yields
    db,                \* rows of queue_items, by position
    tx,                \* the save each task has under way in the store
    lastOp,            \* the last control-plane request and its HTTP status
    topup,             \* TopUpConfig behind its mutex
    topup_db,          \* the row of top_up_config in the store, if any
    topup_stats,       \* TopUpStats behind its mutex
    fs,                \* directories and files that exist
    o,                 \* OutputRuntime behind its mutex
    enc,               \* encoder child process of each start call
    se,                \* stderr task of each start call
    w,                 \* playout writer task of each start call
    grace,             \* start calls sleeping in their 800 ms grace period
    rtc,               \* AppState.webrtc, its mutex and the sessions offers made
    held,              \* mutexes and locks held over the last store or network await
    lk,                \* the locks of AppState: what each task holds and is about to do
    bus                \* the PCM broadcast channel: chunks sent, and each receiver

vars ==
    <<log, now, vu, track_started_at, next_id, db, tx, lastOp, topup, topup_db, topup_stats, fs, o, enc, se, w, grace,
      rtc, held, lk, bus>>

playoutVars == <<log, now, vu, track_started_at>>

outputVars == <<o, enc, se, w, grace>>

topupVars == <<topup, topup_db, topup_stats>>

Gens == 1..MaxStarts

(* ------------------------------ locks ---------------------------------- *)

\* The locks of AppState, in the order they are to be taken.
LockOrder == <<"playout", "output", "topup", "topup_stats", "webrtc">>

Rank(l) == CHOOSE i \in 1..Len(LockOrder) : LockOrder[i] = l

\* lock().await or write().await, read().await, and the end of the guard.
Write(l) == [op |-> "write", lock |-> l]

Read(l) == [op |-> "read", lock |-> l]

Drop(l) == [op |-> "drop", lock |-> l]

\* writer_playout, top-up poll: the configuration, the attempt, the second
\* attempt and the adoption of the default directory, the telemetry.
poll_locks ==
    LET cfg == <<Write("topup"), Drop("topup")>>
        attempt == <<Write("playout"), Drop("playout")>>
        stats == <<Write("topup_stats"), Drop("topup_stats")>>
    IN { cfg \o attempt \o stats,
         cfg \o attempt \o attempt \o stats,
         cfg \o attempt \o attempt \o cfg \o stats }

\* writer_playout: selecting the head, the head check of the inner loop and
\* the 33 ms update.
play_locks ==
    { <<Write("playout"), Drop("playout")>>, <<Read("playout"), Drop("playout")>> }

\* A variant that reads the top-up configuration before it takes the queue.
advance_locks_topup_first ==
    { <<Write("topup"), Write("playout"), Drop("topup"),
        Write("topup_stats"), Drop("topup_stats"), Drop("playout")>> }

\* writer_playout, end of item: under the playout write lock the top-up
\* configuration is cloned and the statistics are updated.
advance_locks ==
    { <<Write("playout"), Drop("playout")>>,
      <<Write("playout"), Write("topup"), Drop("topup"),
        Write("topup_stats"), Drop("topup_stats"), Drop("playout")>> }

\* The task that runs writer_playout records its error in the output.
writer_error_locks == { <<Write("output"), Drop("output")>> }

\* Queue and transport handlers, and the status and meter reads.
queue_handler_locks ==
    { <<Write("playout"), Drop("playout")>>, <<Read("playout"), Drop("playout")>> }

\* api_topup_get and api_topup_set_config.
topup_handler_locks ==
    { <<Write("topup"), Drop("topup"), Write("topup_stats"), Drop("topup_stats")>>,
      <<Write("topup"), Drop("topup")>> }

\* output_start_internal (before and after its sleep); stop, status poll,
\* set_config and the stderr task.
output_handler_locks ==
    { <<Write("output"), Drop("output"), Write("output"), Drop("output")>>,
      <<Write("output"), Drop("output")>> }

\* api_webrtc_offer and api_webrtc_candidate; the meter sender of a session.
webrtc_locks ==
    { <<Write("webrtc"), Drop("webrtc")>>, <<Read("playout"), Drop("playout")>> }

LockTasks == {"writer", "queue", "config", "output", "webrtc"}

LockScripts(t) ==
    CASE t = "writer" -> poll_locks \cup play_locks \cup advance_locks \cup writer_error_locks
      [] t = "queue" -> queue_handler_locks
      [] t = "config" -> topup_handler_locks
      [] t = "output" -> output_handler_locks
      [] OTHER -> webrtc_locks

\* No task holds a lock or is in a section that takes one.
LkIdle == [todo |-> [t \in LockTasks |-> <<>>], has |-> [t \in LockTasks |-> <<>>]]

Holders(l) == {t \in LockTasks : \E i \in 1..Len(lk.has[t]) : lk.has[t][i].lock = l}

Writers(l) == {t \in LockTasks : \E i \in 1..Len(lk.has[t]) : lk.has[t][i] = Write(l)}

\* The tasks that keep `step` from being granted.
Blockers(step) == IF step.op = "read" THEN Writers(step.lock) ELSE Holders(step.lock)

\* Task t enters a section of its code that takes locks.
LockBegin(t, script) ==
    /\ lk.todo[t] = <<>>
    /\ lk.has[t] = <<>>
    /\ lk' = [lk EXCEPT !.todo[t] = script]
    /\ UNCHANGED <<log, now, vu, track_started_at, next_id, db, tx, lastOp, topup, topup_db,
                   topup_stats, fs, o, enc, se, w, grace, rtc, held, bus>>

\* The lock task t awaits is granted.
LockAcquire(t) ==
    /\ lk.todo[t] # <<>>
    /\ Head(lk.todo[t]).op # "drop"
    /\ Blockers(Head(lk.todo[t])) = {}
    /\ lk' = [lk EXCEPT !.todo[t] = Tail(@), !.has[t] = Append(@, Head(lk.todo[t]))]
    /\ UNCHANGED <<log, now, vu, track_started_at, next_id, db, tx, lastOp, topup, topup_db,
                   topup_stats, fs, o, enc, se, w, grace, rtc, held, bus>>

\* A guard of task t goes out of scope.
LockRelease(t) ==
    /\ lk.todo[t] # <<>>
    /\ Head(lk.todo[t]).op = "drop"
    /\ lk' = [lk EXCEPT !.todo[t] = Tail(@),
                        !.has[t] = SelectSeq(@, LAMBDA h : h.lock # Head(lk.todo[t]).lock)]
    /\ UNCHANGED <<log, now, vu, track_started_at, next_id, db, tx, lastOp, topup, topup_db,
                   topup_stats, fs, o, enc, se, w, grace, rtc, held, bus>>

(* ------------------------------ PCM bus -------------------------------- *)

\* The receivers of the channel: the one main keeps (0), which never
\* receives, and the audio pump of each WebRTC session.
Receivers == 0..MaxOffers

\* broadcast::channel(64) in main: nothing sent, the receiver of main
\* subscribed. Chunks are numbered from 1 as they are sent; `next` is the
\* chunk a receiver gets next, `last` the one it got last, `told` the count
\* of its last Lagged(n).
BusInit ==
    [sent |-> 0, res |-> "none",
     rx |-> [r \in Receivers |-> [on |-> r = 0, next |-> 1, last |-> 0, told |-> 0]]]

\* pcm_tx.subscribe() of an offer: the receiver starts at the next chunk.
BusSubscribe(r) ==
    /\ r # 0
    /\ ~bus.rx[r].on
    /\ bus.rx[r].next = 1
    /\ bus' = [bus EXCEPT !.rx[r].on = TRUE, !.rx[r].next = bus.sent + 1]
    /\ UNCHANGED <<log, now, vu, track_started_at, next_id, db, tx, lastOp, topup, topup_db,
                   topup_stats, fs, o, enc, se, w, grace, rtc, held, lk>>

\* A variant that waits for every receiver to have room, as a bounded
\* queue would.
BusPublish_waits_for_room ==
    /\ bus.sent < MaxPublished
    /\ \A r \in Receivers : bus.rx[r].on => bus.sent - bus.rx[r].next + 1 < BusCapacity
    /\ bus' = [bus EXCEPT !.sent = @ + 1, !.res = "ok"]
    /\ UNCHANGED <<log, now, vu, track_started_at, next_id, db, tx, lastOp, topup, topup_db,
                   topup_stats, fs, o, enc, se, w, grace, rtc, held, lk>>

\* let _ = pcm_tx.send(chunk) of the writer: the chunk takes the place of the
\* oldest one; the result (an error when no receiver is left) is dropped.
BusPublish ==
    /\ bus.sent < MaxPublished
    /\ bus' = [bus EXCEPT !.sent = @ + 1,
                          !.res = IF \E r \in Receivers : bus.rx[r].on THEN "ok" ELSE "err"]
    /\ UNCHANGED <<log, now, vu, track_started_at, next_id, db, tx, lastOp, topup, topup_db,
                   topup_stats, fs, o, enc, se, w, grace, rtc, held, lk>>

\* The oldest chunk the channel still holds.
OldestRetained == IF bus.sent > BusCapacity THEN bus.sent - BusCapacity + 1 ELSE 1

\* rx.recv().await of a pump returns: Lagged(n) when the chunk it was to get
\* is gone (it then stands at the oldest one retained), else the chunk.
BusRecv(r) ==
    /\ r # 0
    /\ bus.rx[r].on
    /\ bus.rx[r].next <= bus.sent
    /\ bus' = IF bus.rx[r].next < OldestRetained
              THEN [bus EXCEPT !.rx[r].told = OldestRetained - bus.rx[r].next,
                               !.rx[r].next = OldestRetained]
              ELSE [bus EXCEPT !.rx[r].last = bus.rx[r].next, !.rx[r].next = @ + 1]
    /\ UNCHANGED <<log, now, vu, track_started_at, next_id, db, tx, lastOp, topup, topup_db,
                   topup_stats, fs, o, enc, se, w, grace, rtc, held, lk>>

\* The pump ends and its receiver is dropped.
BusDrop(r) ==
    /\ r # 0
    /\ bus.rx[r].on
    /\ bus' = [bus EXCEPT !.rx[r].on = FALSE]
    /\ UNCHANGED <<log, now, vu, track_started_at, next_id, db, tx, lastOp, topup, topup_db,
                   topup_stats, fs, o, enc, se, w, grace, rtc, held, lk>>

(* ------------------------------ ids ------------------------------------ *)

\* n calls of Uuid::new_v4(): the ids next_id, next_id + 1, ...
FreshIds(n) == [i \in 1..n |-> next_id + i - 1]

\* The run has ids left for n more items.
CanAllocate(n) == next_id + n - 1 <= MaxIds

(* ----------------------- marker normalization -------------------------- *)

\* A variant that sets the first two markers and leaves the rest as found.
normalize_log_markers_first_two(l) ==
    [i \in 1..Len(l) |->
        [l[i] EXCEPT !.state = IF i = 1 THEN "playing"
                               ELSE IF i = 2 THEN "next" ELSE l[i].state]]

normalize_log_markers(l) ==
    [i \in 1..Len(l) |->
        [l[i] EXCEPT !.state = IF i = 1 THEN "playing"
                               ELSE IF i = 2 THEN "next" ELSE "queued"]]

\* normalize_log_markers followed by the same three assignments again.
normalize_queue_states(l) ==
    LET m == normalize_log_markers(l) IN
    [i \in 1..Len(m) |->
        [m[i] EXCEPT !.state = IF i = 1 THEN "playing"
                               ELSE IF i = 2 THEN "next" ELSE "queued"]]

Playout == [log |-> log, now |-> now, vu |-> vu, track_started_at |-> track_started_at]

SetPlayout(p) ==
    /\ log' = p.log
    /\ now' = p.now
    /\ vu' = p.vu
    /\ track_started_at' = p.track_started_at

normalize_log_state(p) ==
    LET l == normalize_log_markers(p.log) IN
    IF l = <<>> THEN [p EXCEPT !.log = l]
    ELSE LET d == parse_dur_to_sec(l[1].dur)
             clamp == d > 0 /\ p.now.pos > d
         IN [p EXCEPT !.log = l,
                      !.now = NowPlaying(l[1].title, l[1].artist, d,
                                         IF clamp THEN d ELSE p.now.pos,
                                         IF clamp THEN d * ChunksPerSec ELSE p.now.pos_f)]

\* A variant that reseeds now-playing and leaves the meters as they were.
advance_to_next_keep_meters(p, reason) ==
    LET l1 == IF p.log # <<>> THEN Tail(p.log) ELSE p.log
        l2 == IF l1 # <<>> THEN [l1 EXCEPT ![1].state = "playing"] ELSE l1
        l3 == IF Len(l2) > 1
              THEN [i \in 1..Len(l2) |->
                      IF i = 2 THEN [l2[i] EXCEPT !.state = "next"]
                      ELSE IF i > 2 /\ l2[i].state = "next"
                           THEN [l2[i] EXCEPT !.state = "queued"]
                           ELSE l2[i]]
              ELSE l2
    IN [log |-> l3,
        now |-> IF l1 # <<>>
                THEN NowPlaying(l1[1].title, l1[1].artist, parse_dur_to_sec(l1[1].dur), 0, 0)
                ELSE NowPlaying("", "", 0, 0, 0),
        vu |-> p.vu,
        track_started_at |-> TRUE]

advance_to_next(p, reason) ==
    \* `removed` takes the state `reason` and is dropped at the end of the block.
    LET l1 == IF p.log # <<>> THEN Tail(p.log) ELSE p.log
        l2 == IF l1 # <<>> THEN [l1 EXCEPT ![1].state = "playing"] ELSE l1
        l3 == IF Len(l2) > 1
              THEN [i \in 1..Len(l2) |->
                      IF i = 2 THEN [l2[i] EXCEPT !.state = "next"]
                      ELSE IF i > 2 /\ l2[i].state = "next"
                           THEN [l2[i] EXCEPT !.state = "queued"]
                           ELSE l2[i]]
              ELSE l2
    IN [log |-> l3,
        now |-> IF l1 # <<>>
                THEN NowPlaying(l1[1].title, l1[1].artist, parse_dur_to_sec(l1[1].dur), 0, 0)
                ELSE NowPlaying("", "", 0, 0, 0),
        vu |-> VuDefault,
        track_started_at |-> TRUE]

DemoItems(ids) ==
    << LogItem(ids[1], "MUS", "15:33", "Lean On Me", "Club Nouveau", "playing",
               <<"3", ":", "4", "8">>, "080-0599"),
       LogItem(ids[2], "MUS", "15:37", "Bette Davis Eyes", "Kim Carnes", "queued",
               <<"3", ":", "3", "0">>, "080-6250"),
       LogItem(ids[3], "MUS", "15:41", "Talk Dirty To Me", "Poison", "queued",
               <<"3", ":", "4", "2">>, "080-4577"),
       LogItem(ids[4], "EVT", "15:45", "TOH Legal ID", "", "locked",
               <<"0", ":", "1", "0">>, "ID-TOH"),
       LogItem(ids[5], "MUS", "15:46", "Jessie's Girl", "Rick Springfield", "queued",
               <<"3", ":", "0", "7">>, "080-1591") >>

reset_demo_playout(p, ids) ==
    LET l == DemoItems(ids) IN
    [log |-> IF Len(l) > 1 THEN [l EXCEPT ![2].state = "next"] ELSE l,
     now |-> NowPlaying("Lean On Me", "Club Nouveau", 3 * 60 + 48, 0, 0),
     vu |-> VuDefault,
     track_started_at |-> TRUE]

(* ----------------------------- persistence ----------------------------- *)

\* db_load_queue: None (modelled as the empty queue) when the table has no
\* row, else the rows by position with their markers normalized.
db_load_queue(rows) == IF Len(rows) = 0 THEN <<>> ELSE normalize_log_markers(rows)

\* Vec::retain with the placeholder test of load_queue_from_db_or_demo.
IsPlaceholder(it) ==
    (it.title \in {"Queued Track 1", "Queued Track 2"} /\ it.artist = "Various")
        \/ TrimIsEmpty(it.cart)

RECURSIVE Retain(_)
Retain(l) ==
    IF l = <<>> THEN <<>>
    ELSE IF IsPlaceholder(Head(l)) THEN Retain(Tail(l))
    ELSE <<Head(l)>> \o Retain(Tail(l))

load_queue_from_db_or_demo(rows) ==
    IF Len(rows) = 0 THEN <<>> ELSE normalize_log_markers(Retain(db_load_queue(rows)))

\* A variant that numbers the positions from 1 and loses the row at 0.
db_save_queue_from_one(snapshot) == IF snapshot = <<>> THEN <<>> ELSE Tail(snapshot)

\* db_save_queue: one transaction that deletes every row and inserts the
\* snapshot at positions 0..n-1.
db_save_queue(snapshot) == snapshot

\* The tasks that call persist_queue: main at startup, a request handler
\* (one at a time, under the playout write lock) and the playout writer.
Tasks == {"main", "handler", "writer"}

\* A task's save: its phase, the snapshot passed to persist_queue, the rows
\* of queue_items as its open transaction sees them, and the snapshot of
\* its last commit (<<>> for none, else a one-element tuple).
TxIdle == [phase |-> "idle", snapshot |-> <<>>, rows |-> <<>>, committed |-> <<>>]

\* A variant without the transaction: every statement commits by itself.
TransactionView_autocommit(table, rows) == rows

\* What queue_items holds for everyone else while a transaction whose own
\* view is `rows` is open: the committed table.
TransactionView(table, rows) == table

\* persist_queue up to conn.transaction(): the connection and the
\* transaction are open, nothing is written yet.
persist_queue(t, snapshot) ==
    /\ tx[t].phase = "idle"
    /\ tx' = [tx EXCEPT ![t] = [@ EXCEPT !.phase = "open", !.snapshot = snapshot, !.rows = db]]
    /\ held' = IF t = "handler" THEN {"playout"} ELSE {}
    /\ UNCHANGED <<playoutVars, next_id, db, lastOp, topupVars, fs, lk, bus, rtc, outputVars>>

\* Another task holds the write lock of the store.
StoreLocked(t) == \E u \in Tasks \ {t} : tx[u].phase = "writing"

\* DELETE FROM queue_items, the first write of the transaction.
TxDelete(t) ==
    /\ tx[t].phase = "open"
    /\ ~StoreLocked(t)
    /\ tx' = [tx EXCEPT ![t] = [@ EXCEPT !.phase = "writing", !.rows = <<>>]]
    /\ db' = TransactionView(db, <<>>)
    /\ UNCHANGED <<playoutVars, next_id, lastOp, topupVars, fs, lk, bus, rtc, held, outputVars>>

\* The write lock is not released in time: the statement fails, the
\* transaction is dropped and persist_queue logs the error.
TxBusy(t) ==
    /\ tx[t].phase = "open"
    /\ StoreLocked(t)
    /\ tx' = [tx EXCEPT ![t] = [@ EXCEPT !.phase = "idle", !.snapshot = <<>>, !.rows = <<>>]]
    /\ UNCHANGED <<playoutVars, next_id, db, lastOp, topupVars, fs, lk, bus, rtc, held, outputVars>>

\* INSERT INTO queue_items of the next item, at position Len(rows).
TxInsert(t) ==
    /\ tx[t].phase = "writing"
    /\ Len(tx[t].rows) < Len(tx[t].snapshot)
    /\ LET rows == Append(tx[t].rows, tx[t].snapshot[Len(tx[t].rows) + 1]) IN
       /\ tx' = [tx EXCEPT ![t] = [@ EXCEPT !.rows = rows]]
       /\ db' = TransactionView(db, rows)
    /\ UNCHANGED <<playoutVars, next_id, lastOp, topupVars, fs, lk, bus, rtc, held, outputVars>>

\* tx.commit(): the rows of the transaction become the table.
TxCommit(t) ==
    /\ tx[t].phase = "writing"
    /\ Len(tx[t].rows) = Len(tx[t].snapshot)
    /\ db' = tx[t].rows
    /\ tx' = [tx EXCEPT ![t] = [@ EXCEPT !.phase = "idle", !.rows = <<>>,
                                         !.committed = <<tx[t].snapshot>>]]
    /\ UNCHANGED <<playoutVars, next_id, lastOp, topupVars, fs, lk, bus, rtc, held, outputVars>>

(* --------------------------- operator inputs --------------------------- *)

\* Request bodies of POST /queue/insert explored.
InsertItems ==
    { [tag |-> "MUS", title |-> "Jingle", artist |-> "Station",
       dur |-> <<"0", ":", "0", "5">>, cart |-> File1],
      [tag |-> "EVT", title |-> "Ad", artist |-> "",
       dur |-> <<"s", "o", "o", "n">>, cart |-> ""] }

Perms(S) ==
    {s \in [1..Cardinality(S) -> S] : \A i, j \in 1..Cardinality(S) : i # j => s[i] # s[j]}

Upcoming(l) == [i \in 1..(Len(l) - 1) |-> l[i + 1].id]

\* Request bodies of POST /queue/reorder explored: every permutation of the
\* upcoming ids, the upcoming ids with one entry replaced (a duplicate, the
\* playing id, a foreign id), and lists of a wrong length.
OrderInputs(l) ==
    IF l = <<>> THEN {<<>>, <<UnknownId>>}
    ELSE LET u == Upcoming(l) IN
         Perms(IdsOf(Tail(l)))
           \cup {[u EXCEPT ![i] = x] : i \in 1..Len(u), x \in IdsOf(l) \cup {UnknownId}}
           \cup {<<>>, <<UnknownId>>, u \o <<UnknownId>>}
           \cup (IF u = <<>> THEN {} ELSE {Tail(u)})

(* ------------------------- transport handlers -------------------------- *)

api_transport_skip ==
    /\ SetPlayout(advance_to_next(Playout, "skipped"))
    /\ lastOp' = [op |-> "skip", code |-> 200]
    /\ UNCHANGED <<db, topupVars, fs, lk, bus, rtc, held, tx, next_id, outputVars>>

api_transport_dump ==
    /\ SetPlayout(advance_to_next(Playout, "dumped"))
    /\ lastOp' = [op |-> "dump", code |-> 200]
    /\ UNCHANGED <<db, topupVars, fs, lk, bus, rtc, held, tx, next_id, outputVars>>

api_transport_reload ==
    /\ CanAllocate(DemoLen)
    /\ SetPlayout(reset_demo_playout(Playout, FreshIds(DemoLen)))
    /\ next_id' = next_id + DemoLen
    /\ lastOp' = [op |-> "reload", code |-> 200]
    /\ UNCHANGED <<db, topupVars, fs, lk, bus, rtc, held, tx, outputVars>>

(* --------------------------- queue handlers ---------------------------- *)

\* A variant that checks the upper bound alone.
RemoveRejected_upper_only(l, index) == index >= Len(l)

\* The index check of api_queue_remove.
RemoveRejected(l, index) == index = 0 \/ index >= Len(l)

api_queue_remove(index) ==
    /\ IF RemoveRejected(log, index)
       THEN /\ lastOp' = [op |-> "remove", code |-> 400]
            /\ UNCHANGED <<playoutVars, db, held>>
       ELSE /\ SetPlayout(normalize_log_state([Playout EXCEPT !.log = RemoveAt(log, index + 1)]))
            /\ db' = db_save_queue(log')
            /\ held' = {"playout"}
            /\ lastOp' = [op |-> "remove", code |-> 200]
    /\ UNCHANGED <<topupVars, fs, lk, bus, rtc, tx, next_id, outputVars>>

\* A variant that inserts the item at `to` without removing it at `from`.
MoveItem_copy(l, from, to) == InsertAt(l, to + 1, l[from + 1])

\* Vec::remove(from) then Vec::insert(to, item).
MoveItem(l, from, to) == InsertAt(RemoveAt(l, from + 1), to + 1, l[from + 1])

\* A variant that checks the upper bounds alone.
MoveRejected_upper_only(l, from, to) == from >= Len(l) \/ to >= Len(l)

\* The index check of api_queue_move.
MoveRejected(l, from, to) == from = 0 \/ to = 0 \/ from >= Len(l) \/ to >= Len(l)

api_queue_move(from, to) ==
    /\ IF MoveRejected(log, from, to)
       THEN /\ lastOp' = [op |-> "move", code |-> 400]
            /\ UNCHANGED <<playoutVars, db, held>>
       ELSE IF from = to
       THEN /\ lastOp' = [op |-> "move", code |-> 200]
            /\ UNCHANGED <<playoutVars, db, held>>
       ELSE /\ SetPlayout(normalize_log_state([Playout EXCEPT !.log = MoveItem(log, from, to)]))
            /\ db' = db_save_queue(log')
            /\ held' = {"playout"}
            /\ lastOp' = [op |-> "move", code |-> 200]
    /\ UNCHANGED <<topupVars, fs, lk, bus, rtc, tx, next_id, outputVars>>

\* The validation loop of api_queue_reorder over `order`, run after the
\* upcoming items were drained into by_id: TRUE when no id repeats and every
\* id is found among the drained items.
OrderAccepted(l, order) ==
    /\ \A i, j \in 1..Len(order) : i # j => order[i] # order[j]
    /\ \A i \in 1..Len(order) : order[i] \in IdsOf(Tail(l))

ItemById(l, id) == CHOOSE it \in Range(l) : it.id = id

\* The drained items that `order` does not name (by_id.into_values(); none
\* remains when the length check has passed).
RECURSIVE Stragglers(_, _)
Stragglers(l, order) ==
    IF l = <<>> THEN <<>>
    ELSE IF Head(l).id \in Range(order) THEN Stragglers(Tail(l), order)
    ELSE <<Head(l)>> \o Stragglers(Tail(l), order)

\* A variant that puts the drained items back in the order they were drained.
Reordered_as_drained(l, order) == l

\* p.log after the drain, the loop and the two extends: the playing item,
\* the drained items in the order asked for, then the stragglers.
Reordered(l, order) ==
    <<l[1]>> \o [i \in 1..Len(order) |-> ItemById(Tail(l), order[i])]
            \o Stragglers(Tail(l), order)

\* A variant that rejects a list that is too long and accepts a short one.
LengthMismatch_too_long_only(l, order) == Len(order) > Len(l) - 1

\* The strict length check of api_queue_reorder (upcoming_len = len - 1).
LengthMismatch(l, order) == Len(order) # Len(l) - 1

api_queue_reorder(order) ==
    /\ IF Len(log) <= 1
       THEN /\ lastOp' = [op |-> "reorder", code |-> 200]
            /\ UNCHANGED <<playoutVars, db, held>>
       ELSE IF LengthMismatch(log, order)
       THEN /\ lastOp' = [op |-> "reorder", code |-> 400]
            /\ UNCHANGED <<playoutVars, db, held>>
       ELSE IF ~OrderAccepted(log, order)
       THEN \* `?` / return Err after p.log.drain(1..): only the playing item is left
            /\ log' = <<log[1]>>
            /\ lastOp' = [op |-> "reorder", code |-> 400]
            /\ UNCHANGED <<now, vu, track_started_at, db, held>>
       ELSE /\ SetPlayout(normalize_log_state([Playout EXCEPT !.log = Reordered(log, order)]))
            /\ db' = db_save_queue(log')
            /\ held' = {"playout"}
            /\ lastOp' = [op |-> "reorder", code |-> 200]
    /\ UNCHANGED <<topupVars, fs, lk, bus, rtc, tx, next_id, outputVars>>

\* A variant that does not clamp `after` to the last index but to the one
\* before it.
InsertIndex_clamped_short(l, after) == Min(after, IF Len(l) >= 2 THEN Len(l) - 2 ELSE 0) + 1

\* The insert position of api_queue_insert on a non-empty queue.
InsertIndex(l, after) == Min(after, IF Len(l) >= 1 THEN Len(l) - 1 ELSE 0) + 1

api_queue_insert(after, item) ==
    /\ CanAllocate(1)
    /\ next_id' = next_id + 1
    /\ LET id == FreshIds(1)[1]
           ins(st) == LogItem(id, item.tag, "--:--", item.title, item.artist, st,
                              item.dur, item.cart)
           l == IF log = <<>> THEN <<ins("playing")>>
                ELSE InsertAt(log, InsertIndex(log, after) + 1, ins("queued"))
       IN SetPlayout(normalize_log_state([Playout EXCEPT !.log = l]))
    /\ db' = db_save_queue(log')
    /\ held' = {"playout"}
    /\ lastOp' = [op |-> "insert", code |-> 200]
    /\ UNCHANGED <<topupVars, fs, lk, bus, rtc, tx, outputVars>>

(* ------------------------------ top-up --------------------------------- *)

\* Option<String>::None of the source. An Option of any other type is the
\* empty tuple for None and a one-element tuple for Some.
None == "<none>"

Some(x) == <<x>>

TopUpConfig(enabled, dir, min_queue, batch) ==
    [enabled |-> enabled, dir |-> dir, min_queue |-> min_queue, batch |-> batch]

default_topup_config == TopUpConfig(TRUE, DefaultDir, 5, 5)

TopUpStatsDefault ==
    [last_scan_ms |-> <<>>, last_dir |-> None, last_files_found |-> <<>>,
     last_appended |-> <<>>, last_error |-> None, last_skip_reason |-> <<>>]

TopUpAttemptDefault ==
    [scanned |-> FALSE, appended |-> 0, files_found |-> 0, error |-> None,
     skip_reason |-> <<>>]

\* title_from_path: the file stem with '_' replaced by ' '.
title_from_path(f) ==
    CASE f = File1 -> "one song"
      [] f = File2 -> "two"
      [] f = File3 -> "nas track"
      [] OTHER -> "Unknown"

\* probe_duration_seconds(..).unwrap_or(0): what ffprobe reports for each file
\* (File2 makes the probe fail).
ProbeSecs(f) ==
    CASE f = File1 -> 5
      [] f = File3 -> 61
      [] OTHER -> 0

RECURSIVE ToDec(_)
ToDec(n) == IF n < 10 THEN <<Digits[n + 1]>> ELSE ToDec(n \div 10) \o <<Digits[(n % 10) + 1]>>

\* format!("{}:{:02}", total_s / 60, total_s % 60)
fmt_dur_mmss(total_s) ==
    LET m == total_s \div 60
        sec == total_s % 60
    IN ToDec(m) \o <<":">> \o (IF sec < 10 THEN <<"0">> \o ToDec(sec) ELSE ToDec(sec))

\* The items topup_try counts toward min_queue.
ActiveLen(l, f) ==
    Cardinality({i \in 1..Len(l) :
        l[i].state # "played" /\ ~TrimIsEmpty(l[i].cart) /\ PathExists(f, l[i].cart)})

\* scan_audio_files_recursive: Err when the root does not exist or read_dir
\* fails on it.
scan_audio_files_recursive(f, dir) ==
    IF dir \in f.dirs /\ dir \notin f.unreadable
    THEN [ok |-> TRUE, files |-> FilesUnder(f, dir)]
    ELSE [ok |-> FALSE, files |-> {}]

\* A variant whose picks may name the same file twice.
PickSeqs_with_repeats(files, batch) ==
    IF batch = 0 THEN {<<>>}
    ELSE UNION {[1..k -> files] : k \in 1..batch}

\* What the pick loop can leave in `picked`, in the order the HashSet is
\* iterated: at least one and at most `batch` distinct files.
PickSeqs(files, batch) ==
    IF batch = 0 THEN {<<>>}
    ELSE {s \in UNION {[1..k -> files] : k \in 1..Min(batch, Cardinality(files))} :
            \A i, j \in 1..Len(s) : i # j => s[i] # s[j]}

TopUpItem(id, path) ==
    LogItem(id, "MUS", "", title_from_path(path), "TopUp", "queued",
            IF ProbeSecs(path) > 0 THEN fmt_dur_mmss(ProbeSecs(path))
            ELSE <<"0", ":", "0", "0">>,
            path)

\* topup_try(log, cfg): every [log, out] one call can end with. The appended
\* items take the next ids; out.appended tells how many were taken.
topup_try(l, cfg, f) ==
    LET out == TopUpAttemptDefault IN
    IF ~cfg.enabled THEN {[log |-> l, out |-> out]}
    ELSE IF TrimIsEmpty(cfg.dir)
    THEN {[log |-> l, out |-> [out EXCEPT !.error = "top-up dir is empty"]]}
    ELSE IF ActiveLen(l, f) >= cfg.min_queue
    THEN {[log |-> l,
           out |-> [out EXCEPT !.skip_reason = <<"skipped", ActiveLen(l, f), cfg.min_queue>>]]}
    ELSE LET res == scan_audio_files_recursive(f, cfg.dir)
             files == res.files
             scanned == [out EXCEPT !.scanned = TRUE]
         IN IF ~res.ok
            THEN {[log |-> l, out |-> [scanned EXCEPT !.error = "scan failed"]]}
            ELSE IF files = {}
            THEN {[log |-> l,
                   out |-> [scanned EXCEPT !.error = "no eligible audio files found"]]}
            ELSE {[log |-> normalize_queue_states(
                              l \o [i \in 1..Len(picks) |-> TopUpItem(FreshIds(Len(picks))[i], picks[i])]),
                   out |-> [scanned EXCEPT
                              !.files_found = Cardinality(files),
                              !.appended = Len(picks),
                              !.error = IF \E i \in 1..Len(picks) : ProbeSecs(picks[i]) = 0
                                        THEN "ffprobe duration failed for one or more files"
                                        ELSE None]]
                    : picks \in {s \in PickSeqs(files, cfg.batch) :
                                    Len(l) + Len(s) <= MaxLen /\ CanAllocate(Len(s))}}

(* -------------------------- output supervisor -------------------------- *)

\* OutputRuntime: config.password, status.state, status.last_error, the
\* registered child and task handles (0 for None, else the start call that
\* created them) and whether started_at is Some.
OutputRuntime(password) ==
    [password |-> password, state |-> "stopped", last_error |-> None,
     ffmpeg_child |-> 0, writer_task |-> 0, stderr_task |-> 0, started_at |-> FALSE,
     stderr_tail |-> <<>>]

\* The stderr task of one start call: whether it runs, and the password it
\* captured, which is also the one in the URL its encoder was given.
StderrIdle == [task |-> "none", password |-> ""]

\* JoinHandle::abort() on stderr task g (0: there is no handle).
AbortStderr(ts, g) ==
    IF g # 0 /\ ts[g].task = "running" THEN [ts EXCEPT ![g].task = "aborted"] ELSE ts

\* A variant that leaves the password in the line.
sanitize_ffmpeg_line_keep_password(line, password) ==
    IF Contains(to_ascii_lowercase(Chars(line)), Chars("authorization:"))
    THEN "Authorization: ****"
    ELSE line

sanitize_ffmpeg_line(line, password) ==
    LET s == IF password # "" THEN Replace(Chars(line), Chars(password), Chars("****"))
             ELSE Chars(line)
    IN IF Contains(to_ascii_lowercase(s), Chars("authorization:"))
       THEN "Authorization: ****"
       ELSE Str(s)

\* The error classifier of push_stderr_tail, by line.
IsClearError ==
    [line \in Strings |->
        LET lc == to_ascii_lowercase(Chars(line)) IN
        \/ Contains(lc, Chars("unauthorized"))
        \/ Contains(lc, Chars("forbidden"))
        \/ Contains(lc, Chars("not found"))
        \/ Contains(lc, Chars("server returned"))]

push_stderr_tail(rt, line) ==
    LET kept == IF Len(rt.stderr_tail) >= MaxTail THEN Tail(rt.stderr_tail)
                ELSE rt.stderr_tail
        pushed == [rt EXCEPT !.stderr_tail = Append(kept, line)]
    IN IF IsClearError[line]
       THEN [pushed EXCEPT !.state = "error", !.last_error = line]
       ELSE pushed

\* The lines of the tail, last first, that last_stderr_summary does not skip.
RECURSIVE LastMeaningful(_)
LastMeaningful(tail) ==
    IF tail = <<>> THEN None
    ELSE LET t == Trim(Chars(tail[Len(tail)]))
             lc == to_ascii_lowercase(t)
         IN IF t = <<>> \/ Contains(lc, Chars("broken pipe"))
                        \/ Contains(lc, Chars("conversion failed"))
            THEN LastMeaningful(SubSeq(tail, 1, Len(tail) - 1))
            ELSE Str(t)

last_stderr_summary(tail) ==
    IF LastMeaningful(tail) # None THEN LastMeaningful(tail)
    ELSE IF tail # <<>> /\ Trim(Chars(tail[Len(tail)])) # <<>>
    THEN Str(Trim(Chars(tail[Len(tail)])))
    ELSE None

\* The locals of one writer_playout task. pc is the await point it is at.
WriterIdle ==
    [pc |-> "none", id |-> NilUuid, path |-> None, dec |-> "none", left |-> 0,
     frames |-> 0, interrupted |-> FALSE, stale |-> 0, stale_w |-> 0,
     cfg |-> default_topup_config, attempt |-> TopUpAttemptDefault,
     used_dir |-> None, snapshot |-> <<>>]

WriterEnded(how) == [WriterIdle EXCEPT !.pc = how]

\* A writer task that was spawned and has neither returned nor been aborted.
WriterAlive(g) == w[g].pc \notin {"none", "done", "aborted"}

AliveWriters == {g \in Gens : WriterAlive(g)}

\* JoinHandle::abort() on writer task g (0: there is no handle).
AbortWriter(ws, g) ==
    IF g # 0 /\ ws[g].pc \notin {"none", "done", "aborted"}
    THEN [ws EXCEPT ![g] = WriterEnded("aborted")]
    ELSE ws

\* The start call that is made next.
NextGen == CHOOSE g \in Gens : enc[g] = "none" /\ \A h \in Gens : enc[h] = "none" => g <= h

\* output_start_internal up to the sleep of the grace period.
output_start_internal ==
    /\ \E g \in Gens : enc[g] = "none"
    /\ IF o.ffmpeg_child # 0
       THEN /\ lastOp' = [op |-> "start", code |-> 409]
            /\ UNCHANGED outputVars
       ELSE IF TrimIsEmpty(o.password)
       THEN /\ o' = [o EXCEPT !.state = "error", !.last_error = "Icecast password is empty"]
            /\ lastOp' = [op |-> "start", code |-> 400]
            /\ UNCHANGED <<enc, se, w, grace>>
       ELSE \/ \* spawn_ffmpeg_icecast fails
               /\ o' = [o EXCEPT !.state = "error", !.last_error = "spawn failed"]
               /\ lastOp' = [op |-> "start", code |-> 500]
               /\ UNCHANGED <<enc, se, w, grace>>
            \/ /\ enc' = [enc EXCEPT ![NextGen] = "running"]
               /\ se' = [se EXCEPT ![NextGen] = [task |-> "running", password |-> o.password]]
               /\ w' = [w EXCEPT ![NextGen] = [WriterIdle EXCEPT !.pc = "start"]]
               /\ o' = [o EXCEPT !.state = "starting", !.last_error = None,
                                 !.started_at = TRUE, !.ffmpeg_child = NextGen,
                                 !.writer_task = NextGen, !.stderr_task = NextGen]
               /\ grace' = grace \cup {NextGen}
               /\ UNCHANGED lastOp
    /\ UNCHANGED <<playoutVars, db, topupVars, fs, lk, bus, rtc, held, tx, next_id>>

\* output_start_internal after the sleep: the optimistic `connected`.
output_start_grace(g) ==
    /\ g \in grace
    /\ grace' = grace \ {g}
    /\ o' = IF o.ffmpeg_child # 0 /\ o.state = "starting"
            THEN [o EXCEPT !.state = "connected"] ELSE o
    /\ lastOp' = [op |-> "start", code |-> 200]
    /\ UNCHANGED <<playoutVars, db, topupVars, fs, lk, bus, rtc, held, tx, next_id, enc, se, w>>

output_stop_internal ==
    /\ enc' = IF o.ffmpeg_child # 0 /\ enc[o.ffmpeg_child] = "running"
              THEN [enc EXCEPT ![o.ffmpeg_child] = "killed"] ELSE enc
    /\ w' = AbortWriter(w, o.writer_task)
    /\ se' = AbortStderr(se, o.stderr_task)
    /\ o' = [o EXCEPT !.ffmpeg_child = 0, !.writer_task = 0, !.stderr_task = 0,
                      !.started_at = FALSE, !.state = "stopped"]
    /\ lastOp' = [op |-> "stop", code |-> 200]
    /\ UNCHANGED <<playoutVars, db, topupVars, fs, lk, bus, rtc, held, tx, next_id, grace>>

\* GET /api/v1/output: the status poll, which detects an encoder exit.
api_output_get ==
    /\ IF o.ffmpeg_child # 0 /\ enc[o.ffmpeg_child] \in {"exited_ok", "exited_err"}
       THEN /\ o' = [o EXCEPT !.ffmpeg_child = 0, !.started_at = FALSE, !.stderr_task = 0,
                              !.state = IF enc[o.ffmpeg_child] = "exited_ok"
                                        THEN "stopped" ELSE "error",
                              !.last_error =
                                  IF enc[o.ffmpeg_child] = "exited_ok" THEN o.last_error
                                  ELSE IF last_stderr_summary(o.stderr_tail) # None
                                  THEN last_stderr_summary(o.stderr_tail)
                                  ELSE "ffmpeg exited"]
            /\ se' = AbortStderr(se, o.stderr_task)
       ELSE UNCHANGED <<o, se>>
    /\ lastOp' = [op |-> "output_get", code |-> 200]
    /\ UNCHANGED <<playoutVars, db, topupVars, fs, lk, bus, rtc, held, tx, next_id, enc, w, grace>>

\* The passwords an operator configures.
Passwords == {"", " ", "hunter2", "abc", "auth"}

\* POST /api/v1/output/config with valid codec and bitrate: the configuration
\* is written to the store (its copy there is not part of the model) and,
\* when that succeeded, the in-memory configuration is replaced.
api_output_set_config(password) ==
    /\ \/ /\ o' = [o EXCEPT !.password = password]
          /\ lastOp' = [op |-> "set_config", code |-> 200]
       \/ \* the store cannot be opened or written: 500 before the lock is taken
          /\ o' = o
          /\ lastOp' = [op |-> "set_config", code |-> 500]
    /\ held' = {}
    /\ UNCHANGED <<playoutVars, db, topupVars, fs, lk, bus, rtc, tx, next_id, enc, se, w, grace>>

\* What an encoder started with `password` in its URL may print on stderr.
RawLines(password) ==
    { Str(Chars("url source:") \o Chars(password) \o Chars("@host")),
      Str(Chars("401 Unauthorized ") \o Chars(password)),
      "AUTHORIZATION: Basic c291",
      "Broken pipe",
      " " }

\* sanitize_ffmpeg_line on every line an encoder may print, by password.
Sanitized ==
    [password \in Passwords \ {"", " "} |->
        [line \in RawLines(password) |-> sanitize_ffmpeg_line(line, password)]]

\* sanitized.trim().is_empty()
IsBlank == [line \in Strings |-> Trim(Chars(line)) = <<>>]

\* One turn of the stderr task of start call g: a line is read, sanitized
\* and, unless blank, pushed.
StderrLine(g, line) ==
    /\ se[g].task = "running"
    /\ LET sanitized == Sanitized[se[g].password][line] IN
       o' = IF IsBlank[sanitized] THEN o ELSE push_stderr_tail(o, sanitized)
    /\ UNCHANGED <<playoutVars, db, lastOp, topupVars, fs, lk, bus, rtc, held, tx, next_id, enc, se, w, grace>>

\* The encoder subprocess ends by itself (connection refused, 401, ...).
EncoderExit(g, how) ==
    /\ enc[g] = "running"
    /\ enc' = [enc EXCEPT ![g] = how]
    /\ UNCHANGED <<playoutVars, db, lastOp, topupVars, fs, lk, bus, rtc, held, tx, next_id, o, se, w, grace>>

(* ---------------------------- playout writer --------------------------- *)

CartFile == "/opt/studiocommand/shared/carts/080-0599.flac"

\* resolve_cart_to_path: None, the cart itself (an absolute path that
\* exists) or the file found under the carts directory.
resolve_cart_to_path(f, cart) ==
    IF TrimIsEmpty(cart) THEN None
    ELSE IF StartsWithSlash(cart) /\ PathExists(f, cart) THEN cart
    ELSE IF cart \in CartsPresent THEN CartFile
    ELSE None

\* path_opt of writer_playout: resolve_cart_to_path(..).or_else(absolute cart).
PathOpt(f, cart) ==
    IF resolve_cart_to_path(f, cart) # None THEN resolve_cart_to_path(f, cart)
    ELSE IF StartsWithSlash(cart) THEN cart ELSE None

\* The decoder has input to decode.
Decodable(f, path) == path = CartFile \/ path \in f.files

\* smooth_level on the zero / positive abstraction of a level.
smooth_level(current, target) == IF current = 0 /\ target = 0 THEN 0 ELSE 1

SetW(g, r) == w' = [w EXCEPT ![g] = r]

\* The encoder pipe of writer g accepts a write.
PipeOpen(g) == enc[g] = "running"

\* stdin.write_all(..)? fails: writer_playout returns Err and the task
\* records it in the output status before it ends.
WriterPipeError(g) ==
    /\ w[g].pc \in {"silence", "write"}
    /\ ~PipeOpen(g)
    /\ SetW(g, WriterEnded("done"))
    /\ o' = [o EXCEPT !.state = "error", !.last_error = "audio writer"]
    /\ UNCHANGED <<playoutVars, db, lastOp, topupVars, fs, lk, bus, rtc, held, tx, next_id, enc, se, grace>>

\* The self-heal of the configured directory at the top of a poll.
SelfHealed(cfg, f) ==
    IF cfg.enabled /\ ~PathExists(f, cfg.dir) /\ cfg.dir # DefaultDir
         /\ PathExists(f, DefaultDir)
    THEN [cfg EXCEPT !.dir = DefaultDir,
                     !.min_queue = IF cfg.min_queue = 0 THEN default_topup_config.min_queue
                                   ELSE cfg.min_queue,
                     !.batch = IF cfg.batch = 0 THEN default_topup_config.batch
                               ELSE cfg.batch]
    ELSE cfg

\* A variant that never makes the second attempt.
ShouldTryFallback_never(cfg, attempt, f) == FALSE

\* The condition under which a poll makes its second attempt.
ShouldTryFallback(cfg, attempt, f) ==
    /\ cfg.enabled
    /\ attempt.appended = 0
    /\ (attempt.files_found = 0 \/ attempt.error # None)
    /\ cfg.dir # DefaultDir
    /\ PathExists(f, DefaultDir)

\* Top-up poll, first attempt (the poll is due on the first iteration and
\* every 2 s after that).
WriterPoll(g) ==
    /\ w[g].pc \in {"start", "top"}
    /\ LET cfg == SelfHealed(topup, fs) IN
       /\ topup' = cfg
       /\ topup_db' = IF cfg # topup THEN Some(cfg) ELSE topup_db
       /\ held' = IF cfg # topup THEN {"topup"} ELSE held
       /\ \E r \in topup_try(log, cfg, fs) :
            /\ log' = r.log
            /\ next_id' = next_id + r.out.appended
            /\ SetW(g, [w[g] EXCEPT
                    !.pc = IF ShouldTryFallback(cfg, r.out, fs) THEN "poll_fb" ELSE "poll_pub",
                    !.cfg = cfg, !.attempt = r.out, !.used_dir = cfg.dir,
                    !.snapshot = IF r.out.appended > 0 THEN Some(r.log) ELSE <<>>])
    /\ UNCHANGED <<now, vu, track_started_at, db, lastOp, topup_stats, fs, lk, bus, rtc, tx, o, enc, se, grace>>

\* A variant that appends from the default directory and keeps the
\* configured one.
WriterPollFallback_keeps_dir(g) ==
    /\ w[g].pc = "poll_fb"
    /\ \E r \in topup_try(log, [w[g].cfg EXCEPT !.dir = DefaultDir], fs) :
         /\ log' = r.log
         /\ next_id' = next_id + r.out.appended
         /\ IF r.out.appended > 0
            THEN /\ UNCHANGED <<topup, topup_db>>
                 /\ held' = {}
                 /\ SetW(g, [w[g] EXCEPT !.pc = "poll_pub", !.attempt = r.out,
                                         !.used_dir = DefaultDir, !.snapshot = Some(r.log)])
            ELSE /\ UNCHANGED <<topup, topup_db, held>>
                 /\ SetW(g, [w[g] EXCEPT !.pc = "poll_pub"])
    /\ UNCHANGED <<now, vu, track_started_at, db, lastOp, topup_stats, fs, lk, bus, rtc, tx, o, enc, se, grace>>

\* Top-up poll, second attempt from the default directory.
WriterPollFallback(g) ==
    /\ w[g].pc = "poll_fb"
    /\ \E r \in topup_try(log, [w[g].cfg EXCEPT !.dir = DefaultDir], fs) :
         /\ log' = r.log
         /\ next_id' = next_id + r.out.appended
         /\ IF r.out.appended > 0
            THEN /\ topup' = [topup EXCEPT !.dir = DefaultDir]
                 /\ topup_db' = Some([topup EXCEPT !.dir = DefaultDir])
                 /\ held' = {}
                 /\ SetW(g, [w[g] EXCEPT !.pc = "poll_pub", !.attempt = r.out,
                                         !.used_dir = DefaultDir, !.snapshot = Some(r.log)])
            ELSE /\ UNCHANGED <<topup, topup_db, held>>
                 /\ SetW(g, [w[g] EXCEPT !.pc = "poll_pub"])
    /\ UNCHANGED <<now, vu, track_started_at, db, lastOp, topup_stats, fs, lk, bus, rtc, tx, o, enc, se, grace>>

\* Top-up poll: publish the telemetry, then persist the queue if it grew.
WriterPollPublish(g) ==
    /\ w[g].pc = "poll_pub"
    /\ topup_stats' =
         IF w[g].attempt.scanned
         THEN [topup_stats EXCEPT
                 !.last_scan_ms = Some("now"), !.last_dir = w[g].used_dir,
                 !.last_files_found = Some(w[g].attempt.files_found),
                 !.last_appended = Some(w[g].attempt.appended),
                 !.last_error = w[g].attempt.error,
                 !.last_skip_reason = <<>>]
         ELSE [topup_stats EXCEPT !.last_skip_reason = w[g].attempt.skip_reason]
    /\ db' = IF w[g].snapshot # <<>> THEN db_save_queue(w[g].snapshot[1]) ELSE db
    /\ held' = IF w[g].snapshot # <<>> THEN {} ELSE held
    /\ SetW(g, [w[g] EXCEPT !.pc = "select", !.cfg = WriterIdle.cfg,
                            !.attempt = WriterIdle.attempt, !.used_dir = None,
                            !.snapshot = <<>>])
    /\ UNCHANGED <<playoutVars, lastOp, topup, topup_db, fs, lk, bus, rtc, tx, next_id, o, enc, se, grace>>

\* Determine the current track: adopt log[0] and reseed now-playing.
WriterSelect(g) ==
    /\ w[g].pc \in {"top", "select"}
    /\ IF log = <<>>
       THEN /\ SetW(g, [w[g] EXCEPT !.pc = "silence", !.id = NilUuid, !.path = None,
                                    !.frames = 0, !.interrupted = FALSE, !.stale = 0, !.stale_w = 0])
            /\ UNCHANGED playoutVars
       ELSE LET l == normalize_queue_states(log)
                path == PathOpt(fs, l[1].cart)
            IN /\ log' = l
               /\ now' = NowPlaying(l[1].title, l[1].artist, parse_dur_seconds(l[1].dur), 0, 0)
               /\ track_started_at' = TRUE
               /\ vu' = VuDefault
               /\ SetW(g, [w[g] EXCEPT !.pc = IF path = None THEN "silence" ELSE "spawn",
                                       !.id = l[1].id, !.path = path, !.frames = 0,
                                       !.interrupted = FALSE, !.stale = 0, !.stale_w = 0])
    /\ UNCHANGED <<db, lastOp, topupVars, fs, lk, bus, rtc, held, tx, next_id, o, enc, se, grace>>

\* No playable path (or no decoder): one tick of silence into the pipe.
WriterSilence(g) ==
    /\ w[g].pc = "silence"
    /\ PipeOpen(g)
    /\ SetW(g, [w[g] EXCEPT !.pc = "top", !.id = NilUuid, !.path = None])
    /\ UNCHANGED <<playoutVars, db, lastOp, topupVars, fs, lk, bus, rtc, held, tx, next_id, o, enc, se, grace>>

\* spawn_ffmpeg_decoder: `left` is what the decoder will deliver before its
\* output ends (end of file, or earlier when it crashes).
WriterSpawn(g) ==
    /\ w[g].pc = "spawn"
    /\ \/ \E n \in 0..MaxChunks :
            /\ (n > 0 => Decodable(fs, w[g].path))
            /\ SetW(g, [w[g] EXCEPT !.pc = "check", !.dec = "running", !.left = n])
       \/ SetW(g, [w[g] EXCEPT !.pc = "silence"])
    /\ UNCHANGED <<playoutVars, db, lastOp, topupVars, fs, lk, bus, rtc, held, tx, next_id, o, enc, se, grace>>

\* The head the writer is decoding is no longer the head of the queue.
Interrupted(g) == log = <<>> \/ log[1].id # w[g].id

\* A variant that goes on to the read without looking at the head.
WriterCheck_no_interruption(g) ==
    /\ w[g].pc = "check"
    /\ SetW(g, [w[g] EXCEPT !.pc = "read"])
    /\ UNCHANGED <<playoutVars, db, lastOp, topupVars, fs, lk, bus, rtc, held, tx, next_id, o, enc, se, grace>>

\* Inner loop: the interruption check made before each read.
WriterCheck(g) ==
    /\ w[g].pc = "check"
    /\ IF Interrupted(g)
       THEN SetW(g, [w[g] EXCEPT !.pc = "kill", !.interrupted = TRUE])
       ELSE SetW(g, [w[g] EXCEPT !.pc = "read"])
    /\ UNCHANGED <<playoutVars, db, lastOp, topupVars, fs, lk, bus, rtc, held, tx, next_id, o, enc, se, grace>>

\* Inner loop: read one chunk, analyze it and publish it on the PCM bus.
\* `stale` counts the chunks of the item published while it is not the head,
\* `stale_w` those written to the encoder pipe while it is not the head.
WriterRead(g) ==
    /\ w[g].pc = "read"
    /\ IF w[g].left = 0
       THEN SetW(g, [w[g] EXCEPT !.pc = "advance", !.dec = "exited"])
       ELSE SetW(g, [w[g] EXCEPT !.pc = "write", !.left = @ - 1,
                                 !.stale = IF Interrupted(g) THEN @ + 1 ELSE @])
    /\ UNCHANGED <<playoutVars, db, lastOp, topupVars, fs, lk, bus, rtc, held, tx, next_id, o, enc, se, grace>>

\* Inner loop: await the tick and write the chunk to the encoder pipe; the
\* meter update follows when 33 ms have passed since the last one.
WriterWrite(g) ==
    /\ w[g].pc = "write"
    /\ PipeOpen(g)
    /\ \E next \in {"update", "check"} :
         SetW(g, [w[g] EXCEPT !.pc = next, !.frames = @ + 1,
                              !.stale_w = IF Interrupted(g) THEN @ + 1 ELSE @])
    /\ UNCHANGED <<playoutVars, db, lastOp, topupVars, fs, lk, bus, rtc, held, tx, next_id, o, enc, se, grace>>

\* Inner loop: position and meters from the chunk just written. `inst` is
\* the level analyze_pcm_s16le_stereo found in the chunk.
WriterUpdate(g, inst) ==
    /\ w[g].pc = "update"
    /\ LET pos_f == IF now.dur > 0 THEN Min(w[g].frames, now.dur * ChunksPerSec)
                    ELSE w[g].frames
       IN now' = [now EXCEPT !.pos_f = pos_f, !.pos = pos_f \div ChunksPerSec]
    /\ vu' = [rms_l |-> smooth_level(vu.rms_l, inst), rms_r |-> smooth_level(vu.rms_r, inst),
              peak_l |-> smooth_level(vu.peak_l, inst), peak_r |-> smooth_level(vu.peak_r, inst)]
    /\ SetW(g, [w[g] EXCEPT !.pc = "check"])
    /\ UNCHANGED <<log, track_started_at, db, lastOp, topupVars, fs, lk, bus, rtc, held, tx, next_id, o, enc, se, grace>>

\* After an interruption: child.kill() and child.wait().
WriterKill(g) ==
    /\ w[g].pc = "kill"
    /\ SetW(g, [w[g] EXCEPT !.pc = "advance", !.dec = "killed", !.left = 0])
    /\ UNCHANGED <<playoutVars, db, lastOp, topupVars, fs, lk, bus, rtc, held, tx, next_id, o, enc, se, grace>>

\* A variant that removes whatever item is at the head.
StillHead_any(l, id) == l # <<>>

\* The test of the final step: the head is still the item that was decoded.
StillHead(l, id) == l # <<>> /\ l[1].id = id

\* End of item: advance if the head is still the item decoded, top up under
\* the same lock, publish the telemetry and take the snapshot.
WriterAdvance(g) ==
    /\ w[g].pc = "advance"
    /\ IF StillHead(log, w[g].id)
       THEN LET l == normalize_queue_states(Tail(log)) IN
            /\ now' = IF l # <<>>
                      THEN NowPlaying(l[1].title, l[1].artist, parse_dur_seconds(l[1].dur), 0, 0)
                      ELSE NowPlaying("", "", 0, 0, 0)
            /\ track_started_at' = (l # <<>>)
            /\ vu' = VuDefault
            /\ \E r \in topup_try(l, topup, fs) :
                 /\ log' = r.log
                 /\ next_id' = next_id + r.out.appended
                 /\ topup_stats' = [topup_stats EXCEPT
                        !.last_scan_ms = Some("now"), !.last_dir = topup.dir,
                        !.last_files_found = Some(r.out.files_found),
                        !.last_appended = Some(r.out.appended),
                        !.last_error = r.out.error]
                 /\ SetW(g, [w[g] EXCEPT !.pc = "persist", !.id = NilUuid, !.path = None,
                                         !.dec = "none", !.frames = 0, !.interrupted = FALSE,
                                         !.stale = 0, !.stale_w = 0, !.snapshot = Some(r.log)])
       ELSE /\ SetW(g, [w[g] EXCEPT !.pc = "top", !.id = NilUuid, !.path = None,
                                    !.dec = "none", !.frames = 0, !.interrupted = FALSE,
                                    !.stale = 0, !.stale_w = 0])
            /\ UNCHANGED <<playoutVars, topup_stats, next_id>>
    /\ UNCHANGED <<db, lastOp, topup, topup_db, fs, lk, bus, rtc, held, tx, o, enc, se, grace>>

\* The snapshot taken by the advance is persisted outside the lock.
WriterPersist(g) ==
    /\ w[g].pc = "persist"
    /\ db' = db_save_queue(w[g].snapshot[1])
    /\ held' = {}
    /\ SetW(g, [w[g] EXCEPT !.pc = "top", !.snapshot = <<>>])
    /\ UNCHANGED <<playoutVars, lastOp, topupVars, fs, lk, bus, rtc, tx, next_id, o, enc, se, grace>>

(* ------------------------------- start --------------------------------- *)

(* ------------------------------ WebRTC --------------------------------- *)

Sessions == 1..MaxOffers

\* One offer and the session it builds: where its handler stands, the two
\* flags its tasks share, whether close() was invoked on its peer connection,
\* its silence keepalive (position, frames written after audio_started was
\* set), its audio pump and the session its take() got.
SessionIdle ==
    [h |-> "none", stopped |-> FALSE, closed |-> FALSE, audio_started |-> FALSE,
     ka |-> "none", late |-> 0, pump |-> "none", prev |-> 0]

\* AppState.webrtc is None (slot 0) and its mutex is free (lock 0).
WebRtcInit == [count |-> 0, slot |-> 0, lock |-> 0, s |-> [k \in Sessions |-> SessionIdle]]

SetS(k, r) == rtc' = [rtc EXCEPT !.s[k] = r]

OfferTypes == {"offer", "answer"}

\* api_webrtc_offer up to the new peer connection and its stop flag; a type
\* other than "offer" is a 400.
OfferBegin(type) ==
    /\ rtc.count < MaxOffers
    /\ IF type # "offer"
       THEN /\ lastOp' = [op |-> "webrtc_offer", code |-> 400]
            /\ UNCHANGED rtc
       ELSE /\ rtc' = [rtc EXCEPT !.count = @ + 1, !.s[rtc.count + 1].h = "new"]
            /\ UNCHANGED lastOp
    /\ UNCHANGED <<playoutVars, outputVars, topupVars, next_id, db, tx, fs, lk, bus, held>>

\* A variant that takes the previous session out and leaves it running.
TakePrevious_keeps_running(r, k) ==
    [r EXCEPT !.lock = k, !.slot = 0, !.s[k].h = "closing", !.s[k].prev = r.slot]

\* guard.take() on a Some: the previous session leaves the slot with its
\* stop flag set, and the handler goes on to close it.
TakePrevious(r, k) ==
    [r EXCEPT !.lock = k, !.slot = 0, !.s[r.slot].stopped = TRUE, !.s[k].h = "closing",
              !.s[k].prev = r.slot]

\* state.webrtc.lock(): with no previous session the new one is installed and
\* the mutex released at once.
OfferLock(k) ==
    /\ rtc.s[k].h = "new"
    /\ rtc.lock = 0
    /\ rtc' = IF rtc.slot = 0
              THEN [rtc EXCEPT !.slot = k, !.s[k].h = "installed"]
              ELSE TakePrevious(rtc, k)
    /\ UNCHANGED <<playoutVars, outputVars, topupVars, next_id, db, tx, lastOp, fs, lk, bus, held>>

\* prev.pc.close().await returns (its error is only logged); the new session
\* is installed and the mutex released.
OfferClose(k) ==
    /\ rtc.s[k].h = "closing"
    /\ rtc' = [rtc EXCEPT !.s[rtc.s[k].prev].closed = TRUE, !.slot = k, !.lock = 0,
                          !.s[k].h = "installed"]
    /\ held' = {"webrtc"}
    /\ UNCHANGED <<playoutVars, outputVars, topupVars, next_id, db, tx, lastOp, fs, lk, bus>>

\* add_track and create_data_channel, then the keepalive task is spawned and
\* the state callback registered; a failure of the first two is a 500.
OfferSetup(k, ok) ==
    /\ rtc.s[k].h = "installed"
    /\ IF ok
       THEN /\ SetS(k, [rtc.s[k] EXCEPT !.h = "handshake", !.ka = "test"])
            /\ UNCHANGED lastOp
       ELSE /\ SetS(k, [rtc.s[k] EXCEPT !.h = "failed"])
            /\ lastOp' = [op |-> "webrtc_offer", code |-> 500]
    /\ UNCHANGED <<playoutVars, outputVars, topupVars, next_id, db, tx, fs, lk, bus, held>>

\* The SDP handshake, then the audio pump is spawned and the answer returned;
\* a bad offer SDP is a 400.
OfferAnswer(k, ok) ==
    /\ rtc.s[k].h = "handshake"
    /\ IF ok
       THEN /\ SetS(k, [rtc.s[k] EXCEPT !.h = "answered", !.pump = "top"])
            /\ lastOp' = [op |-> "webrtc_offer", code |-> 200]
       ELSE /\ SetS(k, [rtc.s[k] EXCEPT !.h = "refused"])
            /\ lastOp' = [op |-> "webrtc_offer", code |-> 400]
    /\ UNCHANGED <<playoutVars, outputVars, topupVars, next_id, db, tx, fs, lk, bus, held>>

\* on_peer_connection_state_change with Failed, Closed or Disconnected.
PeerStateChange(k) ==
    /\ rtc.s[k].h \in {"handshake", "answered", "refused"}
    /\ ~rtc.s[k].stopped
    /\ SetS(k, [rtc.s[k] EXCEPT !.stopped = TRUE])
    /\ UNCHANGED <<playoutVars, outputVars, topupVars, next_id, db, tx, lastOp, fs, lk, bus, held>>

\* A variant whose loop looks at the stop flag only.
KeepaliveExits_stopped_only(r) == r.stopped

\* The negated loop condition of the silence keepalive.
KeepaliveExits(r) == r.stopped \/ r.audio_started

\* The silence keepalive at its while: leave, or encode a frame.
KeepaliveTest(k) ==
    /\ rtc.s[k].ka = "test"
    /\ SetS(k, [rtc.s[k] EXCEPT !.ka = IF KeepaliveExits(rtc.s[k]) THEN "done" ELSE "write"])
    /\ UNCHANGED <<playoutVars, outputVars, topupVars, next_id, db, tx, lastOp, fs, lk, bus, held>>

\* write_sample of one silence frame, then the 20 ms sleep.
KeepaliveWrite(k) ==
    /\ rtc.s[k].ka = "write"
    /\ SetS(k, [rtc.s[k] EXCEPT !.ka = "test",
                                !.late = Min(@ + (IF rtc.s[k].audio_started THEN 1 ELSE 0),
                                             MaxFrames)])
    /\ UNCHANGED <<playoutVars, outputVars, topupVars, next_id, db, tx, lastOp, fs, lk, bus, held>>

\* The audio pump at its while: leave when stopped, or wait for PCM.
PumpTop(k) ==
    /\ rtc.s[k].pump = "top"
    /\ SetS(k, [rtc.s[k] EXCEPT !.pump = IF rtc.s[k].stopped THEN "done" ELSE "recv"])
    /\ UNCHANGED <<playoutVars, outputVars, topupVars, next_id, db, tx, lastOp, fs, lk, bus, held>>

PumpOutcomes == {"written", "write_failed", "lagged"}

\* A PCM chunk arrives: a frame is encoded and written, and the first
\* successful write sets audio_started; a failed write ends the task.
PumpFrame(k, outcome) ==
    /\ rtc.s[k].pump = "recv"
    /\ SetS(k, CASE outcome = "written" ->
                      [rtc.s[k] EXCEPT !.pump = "top", !.audio_started = TRUE]
                 [] outcome = "write_failed" -> [rtc.s[k] EXCEPT !.pump = "done"]
                 [] OTHER -> [rtc.s[k] EXCEPT !.pump = "top"])
    /\ UNCHANGED <<playoutVars, outputVars, topupVars, next_id, db, tx, lastOp, fs, lk, bus, held>>

api_webrtc_offer(k) ==
    \/ OfferLock(k)
    \/ OfferClose(k)
    \/ \E ok \in BOOLEAN : OfferSetup(k, ok)
    \/ \E ok \in BOOLEAN : OfferAnswer(k, ok)

\* Contents of queue_items found at startup (ids as stored): no row; one
\* top-up item with a stale marker; legacy placeholder rows around two items.
InitialRows ==
    { <<>>,
      << LogItem(1, "MUS", "", "one song", "TopUp", "queued", <<"0", ":", "0", "5">>, File1) >>,
      << LogItem(1, "MUS", "", "Queued Track 1", "Various", "playing",
                 <<"3", ":", "0", "0">>, "080-0001"),
         LogItem(2, "MUS", "", "nas track", "TopUp", "locked", <<"1", ":", "0", "1">>, File3),
         LogItem(3, "MUS", "", "Sweeper", "Station", "next", <<"0", ":", "0", "3">>, " "),
         LogItem(4, "MUS", "", "two", "TopUp", "playing", <<"0", ":", "0", "0">>, File2) >> }

\* Both directories exist; the configured one holds no audio file.
FsConfiguredEmpty == [dirs |-> {DefaultDir, ConfiguredDir}, files |-> {File1}, unreadable |-> {}]

FsFull == [dirs |-> {DefaultDir, ConfiguredDir}, files |-> Files, unreadable |-> {}]

InitWith(env) ==
    /\ log = load_queue_from_db_or_demo(env.rows)
    /\ db = db_save_queue(load_queue_from_db_or_demo(env.rows))
    /\ now = NowPlaying("Neutron Dance", "Pointer Sisters", 242, 0, 0)
    /\ vu = VuDefault
    /\ track_started_at = FALSE
    /\ next_id = Len(env.rows) + 1
    /\ lastOp = [op |-> "none", code |-> 0]
    /\ tx = [t \in Tasks |->
              IF t = "main"
              THEN [TxIdle EXCEPT !.committed = <<load_queue_from_db_or_demo(env.rows)>>]
              ELSE TxIdle]
    /\ topup = env.topup
    /\ topup_db = Some(env.topup)
    /\ topup_stats = TopUpStatsDefault
    /\ fs = env.fs
    /\ o = OutputRuntime(env.password)
    /\ enc = [g \in Gens |-> "none"]
    /\ se = [g \in Gens |-> StderrIdle]
    /\ w = [g \in Gens |-> WriterIdle]
    /\ grace = {}
    /\ rtc = WebRtcInit
    /\ held = {}
    /\ lk = LkIdle
    /\ bus = BusInit

\* Any store contents, top-up disabled: the operator's queue alone.
InitOps ==
    \E rows \in InitialRows :
        InitWith([rows |-> rows, topup |-> TopUpConfig(FALSE, DefaultDir, 1, 1),
                  fs |-> FsFull, password |-> ""])

QueueHandlers ==
    \/ \E index \in 0..Len(log) : api_queue_remove(index)
    \/ \E from, to \in 0..Len(log) : api_queue_move(from, to)
    \/ \E order \in OrderInputs(log) : api_queue_reorder(order)
    \/ \E after \in 0..(Len(log) + 1), item \in InsertItems :
           Len(log) < MaxLen /\ api_queue_insert(after, item)

TransportHandlers ==
    \/ api_transport_skip
    \/ api_transport_dump
    \/ api_transport_reload

NextOps == QueueHandlers \/ TransportHandlers

\* The control plane alone: every queue and transport handler, from every
\* stored queue.
SpecOps == InitOps /\ [][NextOps]_vars

\* One stored top-up item, top-up from a configured directory that holds
\* nothing, and a password for the encoder.
InitPlay ==
    InitWith([rows |-> << LogItem(1, "MUS", "", "one song", "TopUp", "queued",
                                  <<"0", ":", "0", "5">>, File1) >>,
              topup |-> TopUpConfig(TRUE, ConfiguredDir, 1, 1),
              fs |-> FsConfiguredEmpty, password |-> "hunter2"])

\* The loop of writer_playout, one step of task g.
writer_playout(g) ==
    \/ WriterPoll(g)
    \/ WriterPollFallback(g)
    \/ WriterPollPublish(g)
    \/ WriterSelect(g)
    \/ WriterSilence(g)
    \/ WriterSpawn(g)
    \/ WriterCheck(g)
    \/ WriterRead(g)
    \/ WriterWrite(g)
    \/ \E inst \in {0, 1} : WriterUpdate(g, inst)
    \/ WriterKill(g)
    \/ WriterAdvance(g)
    \/ WriterPersist(g)

NextPlay ==
    \/ TransportHandlers
    \/ output_start_internal
    \/ \E g \in Gens : output_start_grace(g)
    \/ \E g \in Gens : writer_playout(g)

\* The engine on air with a healthy encoder: the output is started and never
\* stopped, the writer plays the queue and the operator uses the transport.
SpecPlay == InitPlay /\ [][NextPlay]_vars

\* A library without audio: both directories exist and hold no file.
FsNoAudio == [dirs |-> {DefaultDir, ConfiguredDir}, files |-> {}, unreadable |-> {}]

\* One stored cart item, top-up that finds nothing to append.
InitOutput ==
    InitWith([rows |-> << LogItem(1, "MUS", "15:33", "Lean On Me", "Club Nouveau", "queued",
                                  <<"3", ":", "4", "8">>, "080-0599") >>,
              topup |-> TopUpConfig(TRUE, ConfiguredDir, 1, 1),
              fs |-> FsNoAudio, password |-> "hunter2"])

OutputHandlers ==
    \/ output_start_internal
    \/ \E g \in Gens : output_start_grace(g)
    \/ output_stop_internal
    \/ api_output_get

NextOutput ==
    \/ OutputHandlers
    \/ \E g \in Gens, how \in {"exited_ok", "exited_err"} : EncoderExit(g, how)
    \/ \E g \in Gens : writer_playout(g) \/ WriterPipeError(g)

\* The output supervisor: start, stop, the status poll, an encoder that may
\* exit at any time, and the writer tasks the starts spawn.
SpecOutput == InitOutput /\ [][NextOutput]_vars

(* ------------------------------ properties ----------------------------- *)

\* An item without its marker.
Unmarked(it) == [it EXCEPT !.state = ""]

C2_RejectedReorderKeepsQueue ==
    [][(lastOp'.op = "reorder" /\ Len(log) >= 2) =>
        \A order \in OrderInputs(log) :
            ( /\ api_queue_reorder(order)
              /\ Len(order) = Len(log) - 1
              /\ \/ \E i, j \in 1..Len(order) : i # j /\ order[i] = order[j]
                 \/ \E i \in 1..Len(order) : order[i] \notin IdsOf(Tail(log)) )
            => (lastOp'.code = 400 /\ log' = log)]_vars

ReorderedAsAsked(order) ==
    /\ log # <<>> => (log' # <<>> /\ log'[1].id = log[1].id)
    /\ Upcoming(log') = order
    /\ Len(log') = Len(log)
    /\ IdsOf(log') = IdsOf(log)
    /\ \A i \in 1..Len(log') :
         \E j \in 1..Len(log) : Unmarked(log'[i]) = Unmarked(log[j])

C5_BadIndexRejected ==
    [][(lastOp'.op \in {"remove", "move"}) =>
        /\ \A index \in 0..Len(log) :
             ((index = 0 \/ index >= Len(log)) /\ api_queue_remove(index))
             => (lastOp'.code = 400 /\ log' = log /\ now' = now)
        /\ \A from, to \in 0..Len(log) :
             ((from = 0 \/ to = 0 \/ from >= Len(log) \/ to >= Len(log))
                /\ api_queue_move(from, to))
             => (lastOp'.code = 400 /\ log' = log /\ now' = now)]_vars

\* A remove or a move was answered 400 on a queue with upcoming items.
C5_Witness ==
    /\ lastOp.op \in {"remove", "move"}
    /\ lastOp.code = 400
    /\ Len(log) >= 2

\* C6: whenever the queue is not empty, now.title and now.artist are those
\* of the item at index 0 and now.dur is the parsed M:SS of its dur.
C6_NowMirrorsHead ==
    log # <<>> =>
        /\ now.title = log[1].title
        /\ now.artist = log[1].artist
        /\ now.dur = parse_dur_to_sec(log[1].dur)

C8_SkipDump ==
    [][(api_transport_skip \/ api_transport_dump) =>
        /\ Len(log') = (IF log = <<>> THEN 0 ELSE Len(log) - 1)
        /\ \A i \in 1..Len(log') : Unmarked(log'[i]) = Unmarked(log[i + 1])
        /\ IF log' # <<>>
           THEN /\ now'.title = log'[1].title
                /\ now'.artist = log'[1].artist
                /\ now'.pos = 0
                /\ now'.pos_f = 0
                /\ vu' = VuDefault
           ELSE now' = NowPlaying("", "", 0, 0, 0)]_vars

\* A dump took the item a writer is decoding, after chunks of it were
\* written: position and meters are back at zero for the new head.
C8_Witness ==
    /\ lastOp.op = "dump"
    /\ log # <<>>
    /\ now.pos_f = 0
    /\ vu = VuDefault
    /\ \E g \in Gens : /\ w[g].pc = "check"
                       /\ w[g].frames > 0
                       /\ w[g].id # log[1].id

\* C9: at most one playout writer task is alive at any time.
C9_SingleWriter == Cardinality(AliveWriters) <= 1

\* C10: once the head is no longer the item a writer decodes, the writer
\* publishes at most one more chunk of it and writes at most one more, then
\* kills the decoder and waits; the next selection adopts the head of the
\* queue, or silence when the queue is empty.
C10_Interruption ==
    /\ [](\A g \in Gens :
            /\ w[g].stale <= 1
            /\ w[g].stale_w <= 1
            /\ (w[g].pc \in {"read", "write", "update"} => ~w[g].interrupted)
            /\ (w[g].interrupted /\ w[g].pc = "advance" => w[g].dec = "killed"))
    /\ [][\A g \in Gens :
            WriterSelect(g) =>
                IF log = <<>> THEN w'[g].pc = "silence" /\ w'[g].id = NilUuid
                ELSE w'[g].id = log'[1].id /\ log'[1].id = log[1].id]_vars

\* A writer published and wrote one chunk of an item that a skip, dump or
\* reload had taken from the head, and has killed its decoder.
C10_Witness ==
    /\ lastOp.op \in {"skip", "dump", "reload"}
    /\ \E g \in Gens : /\ w[g].pc = "advance"
                       /\ w[g].interrupted
                       /\ w[g].stale = 1
                       /\ w[g].stale_w = 1
                       /\ w[g].dec = "killed"

\* C11: every successful queue mutation is followed by a persistence write
\* of the queue as it is after the mutation: once a handler has answered
\* 200 with the queue changed, the store holds that queue.
C11_MutationPersisted ==
    [][(lastOp'.code = 200 /\ log' # log) => db' = log']_vars

\* A queue without its markers.
UnmarkedAll(l) == [i \in 1..Len(l) |-> Unmarked(l[i])]

\* What a restart loads after the queue l was saved.
SavedThenLoaded(l) == load_queue_from_db_or_demo(db_save_queue(l))

StoreSnapshots ==
    LET d == SubSeq(DemoItems(<<1, 2, 3, 4, 5>>), 1, 3) IN
    { normalize_log_markers(<<d[1], d[2]>>),
      normalize_log_markers(<<d[2], d[3]>>),
      normalize_log_markers(<<d[2], d[1]>>),
      <<>> }

\* The engine is killed while saves are under way and started again: the
\* open transactions are gone and main persists the queue it loads.
CrashRestart ==
    /\ \E t \in Tasks : tx[t].phase # "idle"
    /\ tx' = [t \in Tasks |->
                IF t = "main"
                THEN [tx[t] EXCEPT !.phase = "open", !.rows = db,
                                   !.snapshot = load_queue_from_db_or_demo(db)]
                ELSE [tx[t] EXCEPT !.phase = "idle", !.snapshot = <<>>, !.rows = <<>>]]
    /\ UNCHANGED <<playoutVars, next_id, db, lastOp, topupVars, fs, lk, bus, rtc, held, outputVars>>

NextStore ==
    \/ \E t \in {"handler", "writer"}, snapshot \in StoreSnapshots : persist_queue(t, snapshot)
    \/ \E t \in Tasks : TxDelete(t)
    \/ \E t \in Tasks : TxBusy(t)
    \/ \E t \in Tasks : TxInsert(t)
    \/ \E t \in Tasks : TxCommit(t)
    \/ CrashRestart

\* The store alone: concurrent saves by a handler and the writer, statement
\* by statement, and a crash with restart at any point.
SpecStore == InitPlay /\ [][NextStore]_vars

\* C13: the persisted queue table always holds exactly one complete
\* snapshot that some task passed to persist_queue, also during a save, with
\* concurrent saves and after a crash in the middle of a save.
C13_CompleteSnapshot == \E t \in Tasks : tx[t].committed = <<db>>

\* A task has written some of its rows while the other task has its own
\* save open, and the table still holds the snapshot committed before.
C13_Witness ==
    \E t, u \in Tasks :
        /\ t # u
        /\ tx[t].phase = "writing"
        /\ Len(tx[t].rows) >= 1
        /\ Len(tx[t].rows) < Len(tx[t].snapshot)
        /\ tx[u].phase = "open"
        /\ tx[t].rows # db

\* C14: an item whose state is locked and that sits at index >= 2 before
\* and after a remove, move, reorder or insert is still locked afterwards.
C14_LockedPreserved ==
    [][lastOp'.op \in {"remove", "move", "reorder", "insert"}
          => \A i \in 3..Len(log), j \in 3..Len(log') :
                 (log[i].state = "locked" /\ log'[j].id = log[i].id)
                     => log'[j].state = "locked"]_vars

\* C15: a move with 0 < from, to < len succeeds; with from = to it changes
\* nothing; otherwise the item that was at `from` ends at `to`, the other
\* items keep their relative order, the item at index 0 is untouched and
\* the length and the set of ids are unchanged.
C15_Move ==
    [][(lastOp'.op = "move")
          => \A from, to \in 1..(Len(log) - 1) :
                 api_queue_move(from, to) =>
                     /\ lastOp'.code = 200
                     /\ IF from = to
                        THEN log' = log
                        ELSE /\ Unmarked(log'[to + 1]) = Unmarked(log[from + 1])
                             /\ UnmarkedAll(RemoveAt(log', to + 1))
                                    = UnmarkedAll(RemoveAt(log, from + 1))
                             /\ log'[1] = log[1]
                             /\ Len(log') = Len(log)
                             /\ IdsOf(log') = IdsOf(log)]_vars

\* A move carried an item over two others towards the head.
C15_Witness ==
    /\ lastOp = [op |-> "move", code |-> 200]
    /\ Len(log) >= 4
    /\ log[2].id > log[4].id
    /\ log[2].id > log[3].id
    /\ log[3].id < log[4].id

\* Inserts by themselves, on queues of up to MaxInsertLen items, with
\* removes and skips in between.
NextInsert ==
    \/ \E after \in 0..(Len(log) + 1), item \in InsertItems :
           Len(log) < MaxInsertLen /\ api_queue_insert(after, item)
    \/ \E index \in 1..(Len(log) - 1) : api_queue_remove(index)
    \/ api_transport_skip

SpecInsert == InitOps /\ [][NextInsert]_vars

\* C16: an insert on an empty queue puts the new item at index 0 with state
\* playing whatever `after` is; on a non-empty queue the new item is at
\* index min(after, len - 1) + 1, the queue grows by exactly one, the
\* existing items keep their relative order and index 0 is not displaced.
C16_Insert ==
    [][(lastOp'.op = "insert")
          => \A after \in 0..(Len(log) + 1), item \in InsertItems :
                 api_queue_insert(after, item) =>
                     LET new == LogItem(next_id, item.tag, "--:--", item.title,
                                        item.artist, "", item.dur, item.cart)
                         at == IF log = <<>> THEN 0
                               ELSE (IF after < Len(log) - 1 THEN after ELSE Len(log) - 1) + 1
                     IN /\ Len(log') = Len(log) + 1
                        /\ Unmarked(log'[at + 1]) = new
                        /\ log = <<>> => log'[1].state = "playing"
                        /\ UnmarkedAll(RemoveAt(log', at + 1)) = UnmarkedAll(log)
                        /\ log # <<>> => log'[1].id = log[1].id]_vars

\* An insert with after = 0 went between the two items of a queue.
C16_Witness ==
    /\ lastOp = [op |-> "insert", code |-> 200]
    /\ Len(log) = 3
    /\ log[2].id > log[3].id
    /\ log[2].id > log[1].id

\* The output by itself: start, stop, status poll and configuration, and
\* the encoder exiting; the encoder prints nothing and the playout writer is
\* not scheduled.
NextControl ==
    \/ OutputHandlers
    \/ \E password \in Passwords : api_output_set_config(password)
    \/ \E g \in Gens, how \in {"exited_ok", "exited_err"} : EncoderExit(g, how)

SpecControl == InitOutput /\ [][NextControl]_vars

\* C17: a start is answered 409 when an encoder child is registered, and
\* 400 with last_error "Icecast password is empty" when none is registered
\* and the password is empty; neither creates an encoder, a writer task or a
\* stderr task, and the 409 leaves the whole output as it is.
C17_StartRejected ==
    [][output_start_internal =>
          /\ o.ffmpeg_child # 0 =>
                 /\ lastOp' = [op |-> "start", code |-> 409]
                 /\ UNCHANGED <<o, enc, se, w, grace>>
          /\ (o.ffmpeg_child = 0 /\ Trim(Chars(o.password)) = <<>>) =>
                 /\ lastOp' = [op |-> "start", code |-> 400]
                 /\ o'.last_error = "Icecast password is empty"
                 /\ o'.ffmpeg_child = 0
                 /\ o'.writer_task = o.writer_task
                 /\ o'.stderr_task = o.stderr_task
                 /\ UNCHANGED <<enc, se, w, grace>>]_vars

\* A start was refused for its empty password after an encoder had run with
\* an earlier one.
C17_Witness ==
    /\ lastOp = [op |-> "start", code |-> 400]
    /\ o.last_error = "Icecast password is empty"
    /\ o.password = ""
    /\ \E g \in Gens : enc[g] # "none"

\* The output with an encoder that prints on stderr and fails, and an
\* operator who changes the password.
NextStderr ==
    \/ OutputHandlers
    \/ api_output_set_config("abc")
    \/ \E g \in Gens : EncoderExit(g, "exited_err")
    \/ \E g \in {h \in Gens : se[h].task = "running"} :
           \E line \in RawLines(se[g].password) : StderrLine(g, line)

SpecStderr == InitOutput /\ [][NextStderr]_vars

\* The passwords a string holds.
PasswordsIn ==
    [line \in Strings |-> {p \in Passwords \ {""} : Contains(Chars(line), Chars(p))}]

\* The strings that hold `Authorization:`.
HasHeader == [line \in Strings |-> Contains(Chars(line), Chars("Authorization:"))]

C18_ConnectedAfterOwnGrace ==
    [][(o'.state = "connected" /\ o.state # "connected") =>
          /\ o.state = "starting"
          /\ o.ffmpeg_child # 0
          /\ o'.ffmpeg_child = o.ffmpeg_child
          /\ grace \ grace' = {o.ffmpeg_child}]_vars

\* C19: when a stop completes no encoder child is registered, no writer
\* task and no stderr task is left running, started_at is cleared and the
\* state is stopped.
C19_StopQuiesces ==
    [][output_stop_internal =>
          /\ o'.ffmpeg_child = 0
          /\ AliveWriters' = {}
          /\ \A g \in Gens : se'[g].task # "running"
          /\ ~o'.started_at
          /\ o'.state = "stopped"]_vars

\* The configured directory does not exist (a NAS mount that is gone).
FsConfiguredMissing == [dirs |-> {DefaultDir}, files |-> {File1, File2}, unreadable |-> {}]

\* The configured directory exists and read_dir fails on it.
FsConfiguredUnreadable ==
    [dirs |-> {DefaultDir, ConfiguredDir}, files |-> Files, unreadable |-> {ConfiguredDir}]

\* Two stored items whose files exist.
TwoActiveRows ==
    << LogItem(1, "MUS", "", "one song", "TopUp", "playing", <<"0", ":", "0", "5">>, File1),
       LogItem(2, "MUS", "", "two", "TopUp", "next", <<"0", ":", "0", "0">>, File2) >>

\* Top-up enabled on the configured directory, with an empty stored queue
\* over each state of that directory, and with a full queue.
InitTopUp ==
    \E env \in { [rows |-> <<>>, fs |-> FsConfiguredMissing],
                 [rows |-> <<>>, fs |-> FsConfiguredEmpty],
                 [rows |-> <<>>, fs |-> FsConfiguredUnreadable],
                 [rows |-> <<>>, fs |-> FsFull],
                 [rows |-> TwoActiveRows, fs |-> FsFull] } :
        InitWith([rows |-> env.rows, topup |-> TopUpConfig(TRUE, ConfiguredDir, 1, 1),
                  fs |-> env.fs, password |-> "hunter2"])

\* The loop of writer_playout when no request takes the head away from it:
\* every step but the kill of the decoder that follows an interruption.
writer_uninterrupted(g) ==
    \/ WriterPoll(g)
    \/ WriterPollFallback(g)
    \/ WriterPollPublish(g)
    \/ WriterSelect(g)
    \/ WriterSilence(g)
    \/ WriterSpawn(g)
    \/ WriterCheck(g)
    \/ WriterRead(g)
    \/ WriterWrite(g)
    \/ \E inst \in {0, 1} : WriterUpdate(g, inst)
    \/ WriterAdvance(g)
    \/ WriterPersist(g)

\* The output is started and the writer runs; no operator touches the queue.
NextTopUp ==
    \/ output_start_internal
    \/ \E g \in Gens : output_start_grace(g)
    \/ \E g \in Gens : writer_uninterrupted(g)

SpecTopUp == InitTopUp /\ [][NextTopUp]_vars

\* The statistics of the last scan.
ScanRecord(s) == <<s.last_scan_ms, s.last_dir, s.last_files_found, s.last_appended>>

\* C21: a top-up attempt that finds the active length at or above min_queue,
\* on the poll and after an end-of-item advance alike, appends nothing,
\* leaves the record of the last scan as it is and sets last_skip_reason.
C21_SkipKeepsStats ==
    [][\A g \in Gens :
          /\ (WriterPollPublish(g) /\ w[g].attempt.skip_reason # <<>>) =>
                 /\ ScanRecord(topup_stats') = ScanRecord(topup_stats)
                 /\ topup_stats'.last_skip_reason # <<>>
          /\ (/\ WriterAdvance(g)
              /\ log # <<>> /\ log[1].id = w[g].id
              /\ topup.enabled /\ ~TrimIsEmpty(topup.dir)
              /\ ActiveLen(Tail(log), fs) >= topup.min_queue) =>
                 /\ Len(log') = Len(log) - 1
                 /\ ScanRecord(topup_stats') = ScanRecord(topup_stats)
                 /\ topup_stats'.last_skip_reason # <<>>]_vars

\* The default directory differs from the configured one, exists and holds
\* eligible files, top-up is enabled and the active length is below min_queue.
DefaultCanHelp(cfg) ==
    /\ cfg.enabled
    /\ ActiveLen(log, fs) < cfg.min_queue
    /\ DefaultDir \in fs.dirs \ fs.unreadable
    /\ FilesUnder(fs, DefaultDir) # {}

\* The configured directory is missing, unreadable or holds no eligible file.
ConfiguredUseless(cfg) ==
    /\ cfg.dir # DefaultDir
    /\ \/ cfg.dir \notin fs.dirs
       \/ cfg.dir \in fs.unreadable
       \/ FilesUnder(fs, cfg.dir) = {}

\* Items were appended to the queue, all of them files of the default directory.
AppendedFromDefault ==
    /\ Len(log') > Len(log)
    /\ SubSeq(log', 1, Len(log)) = normalize_queue_states(log)
    /\ \A i \in (Len(log) + 1)..Len(log') : DirOf(log'[i].cart) = DefaultDir

\* C22: with top-up enabled, the active length below min_queue, a useless
\* configured directory and a default directory that holds files, one poll
\* appends items from the default directory, sets the in-memory directory
\* to the default, persists that config and records last_dir as the default.
C22_FallbackToDefault ==
    [][\A g \in Gens :
          /\ (WriterPoll(g) /\ DefaultCanHelp(topup) /\ ConfiguredUseless(topup)) =>
                 \/ /\ AppendedFromDefault
                    /\ topup'.dir = DefaultDir
                    /\ topup_db' = Some(topup')
                    /\ w'[g].used_dir = DefaultDir
                    /\ w'[g].attempt.scanned
                    /\ w'[g].pc = "poll_pub"
                 \/ /\ log' = log
                    /\ w'[g].pc = "poll_fb"
          /\ (WriterPollFallback(g) /\ DefaultCanHelp(w[g].cfg)) =>
                 /\ AppendedFromDefault
                 /\ topup'.dir = DefaultDir
                 /\ topup_db' = Some(topup')
                 /\ w'[g].used_dir = DefaultDir
                 /\ w'[g].attempt.scanned
                 /\ w'[g].pc = "poll_pub"
          /\ (WriterPollPublish(g) /\ w[g].attempt.scanned) =>
                 topup_stats'.last_dir = w[g].used_dir]_vars

\* After a poll over an unreadable configured directory the queue holds a
\* file of the default directory, the config names the default directory
\* in memory and in the store, and so does last_dir.
C22_Witness ==
    /\ fs.unreadable = {ConfiguredDir}
    /\ log # <<>> /\ DirOf(log[1].cart) = DefaultDir
    /\ topup.dir = DefaultDir
    /\ topup_db = Some(topup)
    /\ topup_stats.last_dir = DefaultDir
    /\ topup_stats.last_appended = Some(1)

\* ---------------------------------------------------------------------
\* Top-up configuration: the stored row, its load at startup and the
\* handler that replaces it.

\* `as u16` applied to the INTEGER columns min_queue and batch.
as_u16(v) == v % 65536

\* db_load_topup_config: no row is the default, a row is read column by
\* column.
db_load_topup_config(row) ==
    IF row = <<>> THEN default_topup_config
    ELSE TopUpConfig(row[1].enabled, row[1].dir, as_u16(row[1].min_queue), as_u16(row[1].batch))

\* A variant that looks at the directory only.
topup_config_needs_migration_dir_only(cfg) == TrimIsEmpty(cfg.dir)

topup_config_needs_migration(cfg) ==
    TrimIsEmpty(cfg.dir) \/ cfg.min_queue = 0 \/ cfg.batch = 0

\* load_topup_config_from_db_or_default: the configuration returned and the
\* stored row left behind (a migration is logged as a warning).
load_topup_config_from_db_or_default(row) ==
    LET cfg == db_load_topup_config(row) IN
    IF topup_config_needs_migration(cfg)
    THEN [cfg |-> default_topup_config, row |-> Some(default_topup_config)]
    ELSE [cfg |-> cfg, row |-> row]

\* Rows left by an older version or written by hand while the engine is down.
LegacyRows ==
    { Some(TopUpConfig(e, d, m, b)) :
        e \in BOOLEAN, d \in {"", " ", ConfiguredDir}, m \in {0, 1}, b \in {0, 1} }

\* What the start of the engine finds in top_up_config: the row the last
\* run left, no row at all, or a legacy row.
FoundRows == {topup_db, <<>>} \cup LegacyRows

\* main: the engine starts (again) with no output task alive, over the
\* stored queue and the stored top-up row `found`.
Startup(found) ==
    /\ \A g \in Gens : enc[g] = "none"
    /\ \A t \in Tasks : tx[t] = TxIdle \/ t = "main"
    /\ log' = load_queue_from_db_or_demo(db)
    /\ db' = db_save_queue(load_queue_from_db_or_demo(db))
    /\ tx' = [tx EXCEPT !["main"] =
                [TxIdle EXCEPT !.committed = <<load_queue_from_db_or_demo(db)>>]]
    /\ now' = NowPlaying("Neutron Dance", "Pointer Sisters", 242, 0, 0)
    /\ vu' = VuDefault
    /\ track_started_at' = FALSE
    /\ topup' = load_topup_config_from_db_or_default(found).cfg
    /\ topup_db' = load_topup_config_from_db_or_default(found).row
    /\ topup_stats' = TopUpStatsDefault
    /\ o' = OutputRuntime(o.password)
    /\ lastOp' = [op |-> IF topup_config_needs_migration(db_load_topup_config(found))
                          THEN "startup_migrated" ELSE "startup",
                   code |-> 0]
    /\ held' = {}
    /\ UNCHANGED <<next_id, fs, lk, bus, rtc, enc, se, w, grace>>

\* Request bodies of POST /api/v1/playout/topup/config.
TopUpInputs ==
    { TopUpConfig(e, d, m, b) :
        e \in BOOLEAN, d \in {"", " ", ConfiguredDir, DefaultDir},
        m \in {0, 1, 2, 100, 101}, b \in {0, 1, 2, 100, 101} }

api_topup_set_config(cfg) ==
    LET trimmed == [cfg EXCEPT !.dir = IF TrimIsEmpty(cfg.dir) THEN "" ELSE cfg.dir] IN
    IF trimmed.min_queue = 0 \/ trimmed.min_queue > 100
       \/ trimmed.batch = 0 \/ trimmed.batch > 100
    THEN /\ lastOp' = [op |-> "topup_set_config", code |-> 400]
         /\ UNCHANGED <<playoutVars, outputVars, topupVars, next_id, db, tx, fs, lk, bus, rtc, held>>
    ELSE \/ /\ topup_db' = Some(trimmed)
            /\ topup' = trimmed
            /\ lastOp' = [op |-> "topup_set_config", code |-> 200]
            /\ held' = {}
            /\ UNCHANGED <<playoutVars, outputVars, topup_stats, next_id, db, tx, fs, lk, bus, rtc>>
         \/ \* the store cannot be opened or written: 500 before the lock is taken
            /\ lastOp' = [op |-> "topup_set_config", code |-> 500]
            /\ held' = {}
            /\ UNCHANGED <<playoutVars, outputVars, topupVars, next_id, db, tx, fs, lk, bus, rtc>>

InitConfig ==
    InitWith([rows |-> <<>>, topup |-> default_topup_config, fs |-> FsFull, password |-> ""])

NextConfig ==
    \/ \E found \in FoundRows : Startup(found)
    \/ \E cfg \in TopUpInputs : api_topup_set_config(cfg)

SpecConfig == InitConfig /\ [][NextConfig]_vars

InitRtc ==
    InitWith([rows |-> <<>>, topup |-> default_topup_config, fs |-> FsFull, password |-> ""])

NextRtc ==
    \/ \E type \in OfferTypes : OfferBegin(type)
    \/ \E k \in Sessions : api_webrtc_offer(k)
    \/ \E k \in Sessions : PeerStateChange(k)
    \/ \E k \in Sessions : KeepaliveTest(k)
    \/ \E k \in Sessions : KeepaliveWrite(k)
    \/ \E k \in Sessions : PumpTop(k)
    \/ \E k \in Sessions, outcome \in PumpOutcomes : PumpFrame(k, outcome)

SpecRtc == InitRtc /\ [][NextRtc]_vars

\* The keepalive is a spawned task that the runtime keeps scheduling.
SpecRtcFair ==
    SpecRtc /\ \A k \in Sessions : WF_vars(KeepaliveTest(k)) /\ WF_vars(KeepaliveWrite(k))

Installed(k) == rtc.s[k].h \in {"installed", "handshake", "answered", "failed", "refused"}

Live(k) == Installed(k) /\ ~(rtc.s[k].stopped /\ rtc.s[k].closed)

\* C24: at most one session is installed at any time, also when offers run
\* concurrently: every session an installed session has replaced has its
\* stop flag set and its peer connection closed, and no two sessions are
\* live together.
C24_OneSession ==
    /\ Cardinality({k \in Sessions : Live(k)}) <= 1
    /\ \A k \in Sessions :
         Installed(k) /\ rtc.slot \notin {0, k} => rtc.s[k].stopped /\ rtc.s[k].closed

\* The second offer has replaced the first session.
C24_Witness ==
    /\ rtc.slot = 2
    /\ Installed(1) /\ Installed(2)
    /\ rtc.s[1].stopped /\ rtc.s[1].closed
    /\ ~rtc.s[2].stopped

\* C25: the keepalive starts a silence frame only while neither stopped nor
\* audio_started is set; after the pump has set audio_started it writes at
\* most one further frame, exits, and once it has exited writes nothing more.
C25_Keepalive ==
    /\ [][\A k \in Sessions :
            /\ rtc.s[k].ka = "test" /\ (rtc.s[k].stopped \/ rtc.s[k].audio_started)
                 => rtc'.s[k].ka # "write"
            /\ rtc'.s[k].late <= 1
            /\ rtc.s[k].ka = "done"
                 => rtc'.s[k].ka = "done" /\ rtc'.s[k].late = rtc.s[k].late]_vars
    /\ \A k \in Sessions : rtc.s[k].audio_started ~> rtc.s[k].ka = "done"

\* The keepalive wrote one frame after the first real audio and has exited.
C25_Witness ==
    \E k \in Sessions :
        rtc.s[k].audio_started /\ rtc.s[k].late = 1 /\ rtc.s[k].ka = "done"
        /\ ~rtc.s[k].stopped

\* ---------------------------------------------------------------------
\* The empty queue with the output running.

\* The writer is a spawned task that keeps running; its poll comes due every
\* 2 s however often the silence loop goes round; the decoder of a file the
\* scan found eligible starts.
SpecTopUpFair ==
    /\ SpecTopUp
    /\ \A g \in Gens :
         /\ WF_vars(writer_uninterrupted(g))
         /\ SF_vars(WriterPoll(g))
         /\ SF_vars(WriterSpawn(g) /\ w'[g].dec = "running")

\* Some directory a poll can reach, the configured one or the default, is
\* readable and holds an eligible file.
ReadableDirWithFiles ==
    \E dir \in {topup.dir, DefaultDir} :
        scan_audio_files_recursive(fs, dir).ok /\ scan_audio_files_recursive(fs, dir).files # {}

HeadIsPlayed ==
    /\ log # <<>>
    /\ \E g \in Gens : WriterAlive(g) /\ w[g].id = log[1].id /\ w[g].dec = "running"

\* C26: with the output running, top-up enabled and a readable directory
\* (configured or default) that holds an eligible file, an empty queue gets an
\* item from the poll, which becomes the head and is played (while an id is
\* left to give it).
C26_EmptyQueueRefills ==
    (/\ log = <<>>
     /\ \E g \in Gens : WriterAlive(g)
     /\ topup.enabled
     /\ ReadableDirWithFiles
     /\ CanAllocate(1))
        ~> HeadIsPlayed

\* The first item of a run that began with an empty queue is on air.
C26_Witness ==
    /\ HeadIsPlayed
    /\ Len(log) = 1
    /\ log[1].id = 1
    /\ log[1].artist = "TopUp"
    /\ next_id = 2

\* ---------------------------------------------------------------------
\* The operator's skip and dump against the writer's end of item.

\* C27: an item leaves the head once. A skip or dump removes the head alone;
\* the final step of the writer removes the head alone when it is still the
\* item the writer decoded, and leaves the queue as it is when a skip or dump
\* has already advanced past that item, so the item after it is not dropped.
C27_HeadLeavesOnce ==
    [][/\ (api_transport_skip \/ api_transport_dump) /\ log # <<>>
            => IdsOf(log') = IdsOf(Tail(log))
       /\ \A g \in Gens : WriterAdvance(g) =>
            IF log # <<>> /\ log[1].id = w[g].id
            THEN /\ Len(log') >= Len(log) - 1
                 /\ \A i \in 1..(Len(log) - 1) : log'[i].id = log[i + 1].id
            ELSE log' = log]_vars

\* A skip or dump took the item whose decoder had already reached its end;
\* the writer is at its final step with another item at the head.
C27_Witness ==
    /\ lastOp.op \in {"skip", "dump"}
    /\ log # <<>>
    /\ \E g \in Gens : /\ w[g].pc = "advance"
                       /\ w[g].dec = "exited"
                       /\ w[g].id # NilUuid
                       /\ w[g].id # log[1].id

\* C28: the position and meter update of the inner loop is applied only
\* while the head of the queue is still the item being decoded.
C28_UpdateOnlyForHead ==
    [][\A g \in Gens, inst \in {0, 1} : WriterUpdate(g, inst) => ~Interrupted(g)]_vars

\* ---------------------------------------------------------------------
\* Locks held across the awaits on the store and the network.

\* The mutexes of TopUpConfig, TopUpStats, OutputRuntime and the WebRTC
\* runtime.
StateMutexes == {"topup", "topup_stats", "output", "webrtc"}

\* C29: no persistence write of the queue is made while the write lock of
\* PlayoutState is held: handlers and writer release it before they persist.
C29_PersistOutsidePlayoutLock == "playout" \notin held

\* C30: none of the mutexes of TopUpConfig, TopUpStats, OutputRuntime and the
\* WebRTC runtime is held while a persistence call or a network await (the
\* close of the previous peer connection) is in progress.
C30_AwaitOutsideMutexes == held \cap StateMutexes = {}

\* ---------------------------------------------------------------------
\* Queue edits and the item on air.

\* C39: remove, move, reorder and insert on a non-empty queue, accepted or
\* rejected, leave the id of the item at index 0 as it was, so none of them
\* makes the writer's interruption check fire. (A step that leaves one of
\* these four in lastOp is a step of that handler.)
C39_EditsKeepHead ==
    [][(lastOp'.op \in {"remove", "move", "reorder", "insert"} /\ log # <<>>)
          => (log' # <<>> /\ log'[1].id = log[1].id)]_vars

\* An accepted move has changed the order behind the head.
C39_Witness ==
    /\ lastOp = [op |-> "move", code |-> 200]
    /\ Len(log) >= 3
    /\ \E i \in 2..(Len(log) - 1) : log[i].id > log[i + 1].id

\* ---------------------------------------------------------------------
\* Heads that cannot be played.

\* A stored queue of one item whose cart is an absolute path to a file that
\* is gone, or a cart number with no file under the carts directory.
InitCarts ==
    \E cart \in {File3, "080-6250"} :
        InitWith([rows |-> << LogItem(1, "MUS", "", "nas track", "TopUp", "playing",
                                      <<"1", ":", "0", "1">>, cart) >>,
                  topup |-> TopUpConfig(TRUE, ConfiguredDir, 1, 1),
                  fs |-> FsConfiguredEmpty, password |-> "hunter2"])

SpecCarts == InitCarts /\ [][NextTopUp]_vars

\* C36: with the queue empty, the head's cart not resolvable (neither an
\* absolute path that exists nor a file under the carts directory) or the
\* decoder not spawned, the writer writes one silence chunk and leaves the
\* head where it is; when the decoder's output ends and the head is still
\* the decoded item, the writer removes that head.
C36_SilenceKeepsHead ==
    [][\A g \in Gens :
         /\ WriterSelect(g) /\ (log = <<>> \/ resolve_cart_to_path(fs, log[1].cart) = None)
              => w'[g].pc = "silence" /\ IdsOf(log') = IdsOf(log)
         /\ WriterSpawn(g) /\ w'[g].dec # "running"
              => w'[g].pc = "silence" /\ log' = log
         /\ WriterSilence(g) => log' = log
         /\ WriterAdvance(g) /\ log # <<>> /\ resolve_cart_to_path(fs, log[1].cart) = None
              => IdsOf(log') = IdsOf(log)
         /\ WriterAdvance(g) /\ StillHead(log, w[g].id) /\ w[g].dec = "exited"
              => /\ Len(log') >= Len(log) - 1
                 /\ \A i \in 1..(Len(log) - 1) : log'[i].id = log[i + 1].id]_vars

(* ----------------------- what one top-up appends ----------------------- *)

\* The draws the pick loop allows for each file it is asked for.
PickTriesPerItem == 20

\* What fastrand::usize(..n) returns at each draw, for a few generators: one
\* that repeats an index, one that goes round the indices, one that changes
\* its mind after the first PickTriesPerItem draws.
DrawSources(n, batch) ==
    LET T == 0..(batch * PickTriesPerItem) IN
    {[t \in T |-> i] : i \in 1..n}
        \cup {[t \in T |-> (t % n) + 1]}
        \cup {[t \in T |-> IF t < PickTriesPerItem THEN 1 ELSE n]}

\* The pick loop of topup_try: `picked` and `tries` when it is left.
RECURSIVE pick_loop(_, _, _, _)
pick_loop(draw, batch, picked, tries) ==
    IF Cardinality(picked) < batch /\ tries < batch * PickTriesPerItem
    THEN pick_loop(draw, batch, picked \cup {draw[tries]}, tries + 1)
    ELSE [picked |-> picked, tries |-> tries]

\* An empty queue or one item of the other directory, over top-up
\* configurations with each batch size and threshold, enabled and not.
InitPick ==
    \E env \in { [rows |-> <<>>, fs |-> FsConfiguredMissing, enabled |-> TRUE, min_queue |-> 2, batch |-> 2],
                 [rows |-> <<>>, fs |-> FsConfiguredMissing, enabled |-> TRUE, min_queue |-> 1, batch |-> 2],
                 [rows |-> <<>>, fs |-> FsConfiguredEmpty, enabled |-> TRUE, min_queue |-> 2, batch |-> 2],
                 [rows |-> <<>>, fs |-> FsFull, enabled |-> TRUE, min_queue |-> 2, batch |-> 1],
                 [rows |-> <<>>, fs |-> FsFull, enabled |-> FALSE, min_queue |-> 1, batch |-> 1] } :
        InitWith([rows |-> env.rows,
                  topup |-> TopUpConfig(env.enabled, ConfiguredDir, env.min_queue, env.batch),
                  fs |-> env.fs, password |-> "hunter2"])

SpecPick == InitPick /\ [][NextTopUp]_vars

\* One call of topup_try on queue `base` under `cfg` that left `after`.
AppendsWithinLimits(base, cfg, after) ==
    LET k == Len(after) - Len(base)
        files == FilesUnder(fs, cfg.dir)
        new == (Len(base) + 1)..Len(after)
    IN /\ k >= 0
       /\ \A i \in 1..Len(base) : [after[i] EXCEPT !.state = base[i].state] = base[i]
       /\ k > 0 => /\ cfg.enabled
                   /\ ActiveLen(base, fs) < cfg.min_queue
                   /\ k <= Min(cfg.batch, Cardinality(files))
       /\ \A i \in new : /\ after[i].artist = "TopUp"
                         /\ after[i].cart \in files
                         /\ after[i].id >= next_id
                         /\ after[i].id \notin IdsOf(log)
       /\ \A i, j \in new : i # j => (after[i].cart # after[j].cart /\ after[i].id # after[j].id)
       /\ (cfg.batch > 0 /\ files # {}) =>
             \A draw \in DrawSources(Cardinality(files), cfg.batch) :
                 LET r == pick_loop(draw, cfg.batch, {}, 0) IN
                 /\ r.tries <= PickTriesPerItem * cfg.batch
                 /\ Cardinality(r.picked) \in 1..Min(cfg.batch, Cardinality(files))

\* C33: a top-up attempt (the poll, its fallback, the refill of an advance)
\* appends only when top-up is enabled and the active length is below
\* min_queue; it then appends between one and min(batch, files found) items,
\* each from a distinct file of the scanned directory, with a fresh id and
\* artist TopUp, after the items that were there, which it neither removes
\* nor reorders; the pick loop stops within 20 * batch draws.
C33_TopUpAppends ==
    [][\A g \in Gens :
        /\ (w[g].pc \in {"start", "top"} /\ w'[g].pc \in {"poll_fb", "poll_pub"})
              => AppendsWithinLimits(log, topup', log')
        /\ (w[g].pc = "poll_fb" /\ w'[g].pc = "poll_pub")
              => AppendsWithinLimits(log, [w[g].cfg EXCEPT !.dir = DefaultDir], log')
        /\ (w[g].pc = "advance" /\ w'[g].pc = "persist")
              => AppendsWithinLimits(normalize_queue_states(Tail(log)), topup, log')]_vars

\* A poll has just appended two distinct files under batch = 2.
C33_Witness ==
    \E g \in Gens :
        /\ w[g].pc = "poll_pub"
        /\ w[g].attempt.appended = 2
        /\ topup.batch = 2
        /\ Len(log) = 2
        /\ log[1].cart # log[2].cart
        /\ log[2].artist = "TopUp"

(* ------------------- the stderr classifier and the state --------------- *)

\* An encoder started with a password that is part of a word of its own
\* error message.
InitAuth ==
    InitWith([rows |-> << LogItem(1, "MUS", "15:33", "Lean On Me", "Club Nouveau", "queued",
                                  <<"3", ":", "4", "8">>, "080-0599") >>,
              topup |-> TopUpConfig(TRUE, ConfiguredDir, 1, 1),
              fs |-> FsNoAudio, password |-> "auth"])

SpecAuth == InitAuth /\ [][NextStderr]_vars

\* C32: a stderr line that contains unauthorized, forbidden, not found or
\* server returned (in any case) sets the state to error at once, with the
\* redacted line as last_error; while the encoder child stays registered the
\* state then leaves error only by a stop or by the status poll that detects
\* the exit of the encoder, never by the end of a grace period.
C32_ClearErrorSticks ==
    [][/\ \A g \in {h \in Gens : se[h].task = "running"} :
          \A line \in RawLines(se[g].password) :
             (StderrLine(g, line) /\ IsClearError[line]) =>
                 /\ o'.state = "error"
                 /\ o'.last_error = Sanitized[se[g].password][line]
       /\ (o.state = "error" /\ o.ffmpeg_child # 0 /\ o'.state # "error") =>
             /\ o'.ffmpeg_child = 0
             /\ lastOp'.op \in {"stop", "output_get"}]_vars

(* ---------------------- offers that end in an error -------------------- *)

\* C40: an offer that was answered with an error after the type check
\* (add_track, the data channel, the offer SDP, create_answer or
\* set_local_description failed) leaves no session of its own: its runtime
\* is not the installed one with `stopped` false, and its silence keepalive
\* is not running.
C40_FailedOfferLeavesNothing ==
    \A k \in Sessions :
        rtc.s[k].h \in {"failed", "refused"} =>
            /\ ~(rtc.slot = k /\ ~rtc.s[k].stopped)
            /\ rtc.s[k].ka \notin {"test", "write"}

(* ------------------- the tasks of a stopped session -------------------- *)

\* The keepalive and the audio pump are spawned tasks that the runtime keeps
\* scheduling; whether a PCM chunk is published for a waiting pump is up to
\* the output, which may be stopped.
SpecRtcTasksFair ==
    SpecRtc /\ \A k \in Sessions :
        WF_vars(KeepaliveTest(k)) /\ WF_vars(KeepaliveWrite(k)) /\ WF_vars(PumpTop(k))

\* C34: once the stop flag of a session is set, its silence keepalive and
\* its audio pump eventually exit, whether or not PCM is published.
C34_TasksExit ==
    \A k \in Sessions :
        rtc.s[k].stopped ~> (rtc.s[k].ka \in {"none", "done"} /\ rtc.s[k].pump \in {"none", "done"})

(* ------------- a failing store and the in-memory configuration --------- *)

ValidTopUp(cfg) == cfg.min_queue \in 1..100 /\ cfg.batch \in 1..100

\* C37: a valid top-up configuration request is reflected by the in-memory
\* configuration also when the write to the store fails.
C37_MemoryFollowsRequest ==
    [][\A cfg \in TopUpInputs :
          (api_topup_set_config(cfg) /\ ValidTopUp(cfg)) =>
              topup' = [cfg EXCEPT !.dir = IF TrimIsEmpty(cfg.dir) THEN "" ELSE cfg.dir]]_vars

(* ------------------ the stored queue and the queue in memory ----------- *)

\* The engine on air while the operator removes and inserts items.
NextConverge ==
    \/ \E index \in 0..Len(log) : api_queue_remove(index)
    \/ \E after \in 0..(Len(log) + 1), item \in InsertItems :
           Len(log) < MaxLen /\ api_queue_insert(after, item)
    \/ output_start_internal
    \/ \E g \in Gens : output_start_grace(g)
    \/ \E g \in Gens : writer_uninterrupted(g)

SpecConverge == InitPlay /\ [][NextConverge]_vars

\* No operation is under way: every handler has returned and no writer has
\* a snapshot left to save.
Quiescent == \A g \in Gens : w[g].snapshot = <<>>

\* C38: when every started operation has completed (no store write fails in
\* this specification) the stored queue holds the ids of the queue in
\* memory, in the same order.
C38_StoreConverges ==
    Quiescent => [i \in 1..Len(db) |-> db[i].id] = [i \in 1..Len(log) |-> log[i].id]

(* ------------------------------ lock order ----------------------------- *)

InitLocks ==
    InitWith([rows |-> <<>>, topup |-> default_topup_config, fs |-> FsFull, password |-> ""])

NextLocks ==
    \/ \E t \in LockTasks : \E script \in LockScripts(t) : LockBegin(t, script)
    \/ \E t \in LockTasks : LockAcquire(t)
    \/ \E t \in LockTasks : LockRelease(t)

\* The writer, a queue handler, a top-up handler, an output handler and a
\* WebRTC handler, each taking and dropping its locks as its code does.
SpecLocks == InitLocks /\ [][NextLocks]_vars

\* Task t awaits a lock that is not free.
Waiting(t) ==
    /\ lk.todo[t] # <<>>
    /\ Head(lk.todo[t]).op # "drop"
    /\ Blockers(Head(lk.todo[t])) # {}

\* Some tasks wait for locks that only tasks among them hold.
Deadlocked ==
    \E S \in SUBSET LockTasks \ {{}} :
        \A t \in S : Waiting(t) /\ Blockers(Head(lk.todo[t])) \subseteq S

\* C31: the locks a task holds together were taken in the order playout,
\* output, topup, topup_stats, webrtc, and no set of tasks waits for locks
\* that only its own members hold.
C31_LockOrder ==
    /\ \A t \in LockTasks : \A i, j \in 1..Len(lk.has[t]) :
           i < j => Rank(lk.has[t][i].lock) < Rank(lk.has[t][j].lock)
    /\ ~Deadlocked

\* The writer holds the queue and the statistics together while a queue
\* handler and a top-up handler wait for what it holds.
C31_Witness ==
    /\ lk.has["writer"] = <<Write("playout"), Write("topup_stats")>>
    /\ Waiting("queue")
    /\ lk.todo["config"] # <<>> /\ Head(lk.todo["config"]) = Write("topup_stats") /\ Waiting("config")

(* ------------------------ publishing to the PCM bus -------------------- *)

NextBus ==
    \/ BusPublish
    \/ \E r \in Receivers : BusSubscribe(r)
    \/ \E r \in Receivers : BusRecv(r)
    \/ \E r \in Receivers : BusDrop(r)

\* The writer publishes while pumps subscribe, receive at their own pace
\* and leave.
SpecBus == InitLocks /\ [][NextBus]_vars

====
